---- MODULE Spec2Model ----
(***************************************************************************)
(* Neural_Sage_Bot: the retrieval layer of the RAG bot.                    *)
(*                                                                         *)
(*   EmbeddingsService  (src/core_embeddings_service.py)  SpecEmbed        *)
(*   DatabaseManager    (src/core_database_manager.py)    SpecDb (writes), *)
(*                        SpecSearch (reads), SpecLock (the write lock)    *)
(*   WebSearchService   (src/core_web_search_service.py)  SpecWeb          *)
(*                                                                         *)
(* Strings are sequences of code points (32 is the space, 120 is "x"), so  *)
(* that strip(), len(), hash() and the comparison of two strings are       *)
(* computed and not assumed.  An embedding vector is a sequence of         *)
(* numbers.  Similarities are in thousandths (SimScale).                   *)
(***************************************************************************)
EXTENDS Integers, Sequences, FiniteSets, TLC

VARIABLES
    cache,      \* EmbeddingsService._embed_cache: insertion-ordered <<key, vec>> entries
    embPc,      \* "idle" | "returned": a call of the service has returned to its caller
    embCall,    \* the call that has just returned: arguments, backend answers, result
    store,      \* the Chroma collection: sequence of documents
    now,        \* the wall clock: [day, sec, us]
    svc,        \* DatabaseManager.embeddings_service: "none" | "real" | "short"
    cfgThreshold, \* config.CHROMA_SIMILARITY_THRESHOLD, in thousandths
    dbPc,       \* "idle" | "returned"
    dbCall,     \* the DatabaseManager call that has just returned
    lock,       \* DatabaseManager.write_lock: 0 when free, else the holding task
    task,       \* per task: the writer's position and arguments
    webPc,      \* position of WebSearchService.search
    webCall,    \* the search in progress or just returned
    modeCfg,    \* config.MODE_CONFIGS: the settings of each mode
    llmPc,      \* "idle" | "returned"
    llmCall,    \* the LLMService.generate call that has just returned
    ragPc,      \* position of RAGPipeline.process
    ragCall,    \* the request being processed: locals and the calls made so far
    botPc,      \* position of handle_message
    botCall,    \* the update being handled: the text, the response, the replies
    userMode    \* context.user_data['mode'] of the user; "" when not set

embVars  == <<cache, embPc, embCall>>
dbVars   == <<store, now, svc, cfgThreshold, dbPc, dbCall>>
lockVars == <<lock, task>>
webVars  == <<webPc, webCall>>
llmVars  == <<modeCfg, llmPc, llmCall>>
ragVars  == <<ragPc, ragCall>>
botVars  == <<botPc, botCall, userMode>>
vars     == <<embVars, dbVars, lockVars, webVars, llmVars, ragVars, botVars>>

----------------------------------------------------------------------------
(* Generic helpers *)

Range(s) == {s[i] : i \in 1..Len(s)}

\* the smaller of two numbers
Min(a, b) == IF a < b THEN a ELSE b

Take(s, n) == SubSeq(s, 1, IF n < Len(s) THEN n ELSE Len(s))

Rep(c, n) == [i \in 1..n |-> c]

SeqsUpTo(S, n) == UNION {[1..k -> S] : k \in 0..n}

RECURSIVE Concat(_)
Concat(ss) == IF ss = <<>> THEN <<>> ELSE Head(ss) \o Concat(Tail(ss))

\* the indices i of 1..n that satisfy keep[i], in increasing order
RECURSIVE IndicesFrom(_, _, _)
IndicesFrom(i, n, keep) ==
    IF i > n THEN <<>>
    ELSE (IF keep[i] THEN <<i>> ELSE <<>>) \o IndicesFrom(i + 1, n, keep)

----------------------------------------------------------------------------
(* Bounds of the model *)

MaxTexts  == 3     \* longest list given to embed / embed_batch
CacheSize == 2     \* EmbeddingsService.cache_size (EMBEDDING_CACHE_SIZE, scaled down)
MaxBatch  == 2     \* largest batch_size given to embed_batch

----------------------------------------------------------------------------
(* EmbeddingsService *)

FallbackDim == 384      \* [0.0] * 384

\* hash(text): a deterministic map from strings to fixed-width integers (here a
\* polynomial hash; it has no collision among the texts of the model, as
\* CPython's 64-bit string hash has none among a handful of strings).  The cache
\* is keyed by this number, never by the text itself.
RECURSIVE HashFrom(_, _)
HashFrom(h, text) ==
    IF text = <<>> THEN h
    ELSE HashFrom((h * 31 + Head(text)) % 65521, Tail(text))

Hash(text) == HashFrom(Len(text), text)

\* the texts the callers embed in SpecEmbed: "a", "b", "c"
EmbedTexts == {<<97>>, <<98>>, <<99>>}

\* What the Ollama server answers to one POST /api/embeddings:
\*   "ok"      200 with an "embedding"
\*   "nokey"   200 without an "embedding" key (result.get("embedding", []))
\*   "status"  a status other than 200
\*   "exc"     requests.post raises (connection error, timeout, bad JSON)
Outcomes == {"ok", "nokey", "status", "exc"}

\* the embedding the model computes for a prompt (the server's, not ours)
OllamaEmbedding(text) == <<1 + Hash(text), Len(text)>>

ZeroVector == Rep(0, FallbackDim)

None == <<-1>>

\* _call_ollama, the body of its for loop: one text, one request
OllamaOneDropped(text, outcome) ==
    IF outcome = "ok" THEN <<OllamaEmbedding(text)>>
    ELSE IF outcome = "nokey" THEN << <<>> >>
    ELSE <<>>

OllamaOne(text, outcome) ==
    IF outcome = "ok" THEN <<OllamaEmbedding(text)>>
    ELSE IF outcome = "nokey" THEN << <<>> >>
    ELSE <<ZeroVector>>

\* _call_ollama(texts): one request per text, in order; outs[k] is the server's
\* answer to the k-th request
RECURSIVE CallOllamaFrom(_, _, _)
CallOllamaFrom(k, texts, outs) ==
    IF k > Len(texts) THEN <<>>
    ELSE OllamaOne(texts[k], outs[k]) \o CallOllamaFrom(k + 1, texts, outs)

_call_ollama(texts, outs) == CallOllamaFrom(1, texts, outs)

CacheKeys(c) == {c[i].key : i \in 1..Len(c)}

CacheGet(c, k) == c[CHOOSE i \in 1..Len(c) : c[i].key = k].vec

\* self._embed_cache[k] = v: a new key goes last, a present key keeps its place
CacheSet(c, k, v) ==
    IF k \in CacheKeys(c)
    THEN [i \in 1..Len(c) |-> IF c[i].key = k THEN [key |-> k, vec |-> v] ELSE c[i]]
    ELSE Append(c, [key |-> k, vec |-> v])

\* oldest_key = next(iter(self._embed_cache)); del self._embed_cache[oldest_key]
EvictOldest(c) == Tail(c)

\* the test of line 57 written with >= size + 2: one entry too many is kept
EvictedLate(c, size) == IF Len(c) > size + 1 THEN EvictOldest(c) ELSE c

\* lines 57-59: if len(self._embed_cache) > self.cache_size, the oldest goes
Evicted(c, size) == IF Len(c) > size THEN EvictOldest(c) ELSE c

\* the lookup of embed (lines 38-44): a hit reads the cache and leaves it alone
LookupMoveToEnd(c, texts) ==
    LET hit == [i \in 1..Len(texts) |-> Hash(texts[i]) \in CacheKeys(c)]
        hits == {Hash(texts[i]) : i \in {j \in 1..Len(texts) : hit[j]}}
        keep == [i \in 1..Len(c) |-> c[i].key \notin hits]
        move == [i \in 1..Len(c) |-> c[i].key \in hits]
        at(ix) == [j \in 1..Len(ix) |-> c[ix[j]]]
    IN  [embeddings |-> [i \in 1..Len(texts) |->
                            IF hit[i] THEN CacheGet(c, Hash(texts[i])) ELSE None],
         uncached_indices |-> IndicesFrom(1, Len(texts), [i \in 1..Len(texts) |-> ~hit[i]]),
         cache |-> at(IndicesFrom(1, Len(c), keep)) \o at(IndicesFrom(1, Len(c), move))]

\* the lookup when a cached fallback vector counts as a miss
LookupRetryFallback(c, texts) ==
    LET hit == [i \in 1..Len(texts) |->
                   /\ Hash(texts[i]) \in CacheKeys(c)
                   /\ CacheGet(c, Hash(texts[i])) # ZeroVector]
    IN  [embeddings |-> [i \in 1..Len(texts) |->
                            IF hit[i] THEN CacheGet(c, Hash(texts[i])) ELSE None],
         uncached_indices |-> IndicesFrom(1, Len(texts), [i \in 1..Len(texts) |-> ~hit[i]]),
         cache |-> c]

Lookup(c, texts) ==
    LET hit == [i \in 1..Len(texts) |-> Hash(texts[i]) \in CacheKeys(c)]
    IN  [embeddings |-> [i \in 1..Len(texts) |->
                            IF hit[i] THEN CacheGet(c, Hash(texts[i])) ELSE None],
         uncached_indices |-> IndicesFrom(1, Len(texts), [i \in 1..Len(texts) |-> ~hit[i]]),
         cache |-> c]

\* the loop of lines 51-59 over zip(uncached_indices, new_embeddings), from pair k
RECURSIVE PlaceFrom(_, _, _, _, _, _, _)
PlaceFrom(k, c, embeddings, texts, idxs, news, size) ==
    IF k > Len(idxs) \/ k > Len(news) THEN [cache |-> c, embeddings |-> embeddings]
    ELSE PlaceFrom(k + 1, Evicted(CacheSet(c, Hash(texts[idxs[k]]), news[k]), size),
                   [embeddings EXCEPT ![idxs[k]] = news[k]], texts, idxs, news, size)

\* the same loop writing result k at position k of the output
RECURSIVE PlaceByRankFrom(_, _, _, _, _, _, _)
PlaceByRankFrom(k, c, embeddings, texts, idxs, news, size) ==
    IF k > Len(idxs) \/ k > Len(news) THEN [cache |-> c, embeddings |-> embeddings]
    ELSE PlaceByRankFrom(k + 1, Evicted(CacheSet(c, Hash(texts[idxs[k]]), news[k]), size),
                         [embeddings EXCEPT ![k] = news[k]], texts, idxs, news, size)

PlaceByRank(c, embeddings, texts, idxs, news, size) ==
    PlaceByRankFrom(1, c, embeddings, texts, idxs, news, size)

Place(c, embeddings, texts, idxs, news, size) ==
    PlaceFrom(1, c, embeddings, texts, idxs, news, size)

\* embed(texts) on cache c; outs are the server's answers to the requests it
\* makes.  Gives the returned list, the cache afterwards and the prompts sent.
\* It is written as a chain of operators, each taking what the lines before it
\* computed: look, the outcome of the lookup; uncached, the texts to request;
\* put, the outcome of the insert loop.
EmbedPlaced(put, uncached) ==
    [result |-> put.embeddings, cache |-> put.cache, prompts |-> uncached]

\* lines 46-61
EmbedUncached(look, texts, uncached, outs, size) ==
    IF uncached = <<>>
    THEN [result |-> look.embeddings, cache |-> look.cache, prompts |-> <<>>]
    ELSE EmbedPlaced(Place(look.cache, look.embeddings, texts, look.uncached_indices,
                           _call_ollama(uncached, outs), size),
                     uncached)

\* line 43: uncached_texts
EmbedLooked(look, texts, outs, size) ==
    EmbedUncached(look, texts,
                  [k \in 1..Len(look.uncached_indices) |-> texts[look.uncached_indices[k]]],
                  outs, size)

embed(c, texts, outs, size) ==
    IF texts = <<>> THEN [result |-> <<>>, cache |-> c, prompts |-> <<>>]
    ELSE EmbedLooked(Lookup(c, texts), texts, outs, size)

\* embed_batch(texts, batch_size): range(0, len(texts), batch_size), from offset i
RECURSIVE EmbedBatchFrom(_, _, _, _, _, _)

\* embeddings.extend(batch_embeddings)
EmbedBatchExtend(one, rest) ==
    [result  |-> one.result \o rest.result,
     cache   |-> rest.cache,
     prompts |-> one.prompts \o rest.prompts]

\* one: what embed gave for the batch at offset i; the later batches follow
EmbedBatchRest(one, i, texts, batch_size, outs, size) ==
    EmbedBatchExtend(one,
                     EmbedBatchFrom(i + batch_size, one.cache, texts, batch_size,
                                    SubSeq(outs, Len(one.prompts) + 1, Len(outs)), size))

EmbedBatchFrom(i, c, texts, batch_size, outs, size) ==
    IF i >= Len(texts) THEN [result |-> <<>>, cache |-> c, prompts |-> <<>>]
    ELSE EmbedBatchRest(embed(c, SubSeq(texts, i + 1,
                                        IF i + batch_size < Len(texts)
                                        THEN i + batch_size ELSE Len(texts)),
                              outs, size),
                        i, texts, batch_size, outs, size)

embed_batch(c, texts, batch_size, outs, size) ==
    EmbedBatchFrom(0, c, texts, batch_size, outs, size)

\* how many requests a call makes: the misses do not depend on the answers
Requests(c, texts, batch_size, size) ==
    Len(embed_batch(c, texts, batch_size, Rep("ok", Len(texts)), size).prompts)

NoCall == [op |-> "none"]

EmbInit ==
    /\ cache = <<>>
    /\ embPc = "idle"
    /\ embCall = NoCall

\* the call op(texts) returns r
EmbReturns(op, texts, batch_size, outs, r) ==
    /\ cache' = r.cache
    /\ embCall' = [op |-> op, texts |-> texts, batch_size |-> batch_size,
                   outs |-> outs, before |-> cache,
                   result |-> r.result, prompts |-> r.prompts]
    /\ embPc' = "returned"

Embed ==
    /\ embPc = "idle"
    /\ \E texts \in SeqsUpTo(EmbedTexts, MaxTexts) :
         \E outs \in [1..Len(Lookup(cache, texts).uncached_indices) -> Outcomes] :
            EmbReturns("embed", texts, 0, outs, embed(cache, texts, outs, CacheSize))

EmbedBatch ==
    /\ embPc = "idle"
    /\ \E texts \in SeqsUpTo(EmbedTexts, MaxTexts), batch_size \in 1..MaxBatch :
         \E outs \in [1..Requests(cache, texts, batch_size, CacheSize) -> Outcomes] :
            EmbReturns("embed_batch", texts, batch_size, outs,
                       embed_batch(cache, texts, batch_size, outs, CacheSize))

ClearCache ==
    /\ embPc = "idle"
    /\ cache' = <<>>
    /\ embCall' = [op |-> "clear_cache"]
    /\ embPc' = "returned"

\* the caller takes the returned value
EmbReturn ==
    /\ embPc = "returned"
    /\ embPc' = "idle"
    /\ embCall' = NoCall
    /\ UNCHANGED cache

----------------------------------------------------------------------------
(* Strings and time *)

\* str.strip(): the white space of both ends goes
IsSpace(c) == c \in {9, 10, 11, 12, 13, 28, 29, 30, 31, 32, 133, 160}

RECURSIVE LStrip(_)
LStrip(s) == IF s # <<>> /\ IsSpace(Head(s)) THEN LStrip(Tail(s)) ELSE s

RECURSIVE RStrip(_)
RStrip(s) ==
    IF s # <<>> /\ IsSpace(s[Len(s)]) THEN RStrip(SubSeq(s, 1, Len(s) - 1)) ELSE s

Strip(s) == RStrip(LStrip(s))

\* a < b for two Python strings: by code point, a proper prefix is smaller
RECURSIVE LexLess(_, _)
LexLess(a, b) ==
    IF b = <<>> THEN FALSE
    ELSE IF a = <<>> THEN TRUE
    ELSE IF Head(a) # Head(b) THEN Head(a) < Head(b)
    ELSE LexLess(Tail(a), Tail(b))

RECURSIVE Pow10(_)
Pow10(n) == IF n = 0 THEN 1 ELSE 10 * Pow10(n - 1)

\* n in decimal, zero-padded to w digits
Digits(n, w) == [i \in 1..w |-> 48 + ((n \div Pow10(w - i)) % 10)]

MaxDays  == 1     \* largest days argument of delete_old_documents
MaxTicks == 1     \* how many times the clock is seen to advance

\* A datetime is [day, sec, us]: the day number, the second of the day and the
\* microsecond of the second.
\* datetime.isoformat(): the date, "T", the time of day, and the microseconds
\* only when they are not zero.  The date is written as a zero-padded day number
\* (for YYYY-MM-DD) and the time as a zero-padded second of the day (for
\* HH:MM:SS); the microseconds have their six digits.
IsoFormat(t) ==
    Digits(t.day, 4) \o <<84>> \o Digits(t.sec, 5)
       \o (IF t.us = 0 THEN <<>> ELSE <<46>> \o Digits(t.us, 6))

\* the clock starts late enough for now - timedelta(days) to exist
StartTime == [day |-> MaxDays, sec |-> 0, us |-> 0]

TicksMade(t) == (t.day - StartTime.day) + t.sec + t.us

\* t - timedelta(days=days)
MinusNoDays(t, days) == t

MinusDays(t, days) == [t EXCEPT !.day = t.day - days]

\* t + timedelta(microseconds=n)
PlusMicros(t, n) == [t EXCEPT !.us = t.us + n]

----------------------------------------------------------------------------
(* DatabaseManager *)

MaxDocsIn   == 2     \* longest documents list given to add_documents
MaxStore    == 2     \* most documents the collection holds
DbCacheSize == 1     \* cache_size of the EmbeddingsService given to DatabaseManager

MinDocLen == 10         \* len(text.strip()) > 10
DefaultBatchSize == 32  \* embed_batch(texts, batch_size=32)
SimScale == 1000        \* a similarity of 1.0, in thousandths
SimThreshold == 350     \* similarity >= 0.35

\* source tags: "manual", "web_auto", "unknown"
Manual  == <<109, 97, 110, 117, 97, 108>>
WebAuto == <<119, 101, 98, 95, 97, 117, 116, 111>>
Unknown == <<117, 110, 107, 110, 111, 119, 110>>

Sources == {Manual, WebAuto}

\* the documents callers give to add_documents: a str of ten "x" between white
\* space, and a dict whose 'text' is eleven "x" between white space
RawDocs ==
    { [kind |-> "str",  text |-> <<32, 32>> \o Rep(120, 10) \o <<10>>],
      [kind |-> "dict", text |-> <<32>> \o Rep(120, 11) \o <<32, 10>>] }

\* text = doc.get('text', str(doc)) for a dict, str(doc) otherwise
DocText(doc) == doc.text

\* the texts of exactly ten characters are kept as well
RECURSIVE ProcessedInclusive(_)
ProcessedInclusive(documents) ==
    IF documents = <<>> THEN <<>>
    ELSE (IF DocText(Head(documents)) # <<>>
             /\ Len(Strip(DocText(Head(documents)))) >= MinDocLen
          THEN <<Strip(DocText(Head(documents)))>> ELSE <<>>)
         \o ProcessedInclusive(Tail(documents))

\* lines 88-96: the stripped texts longer than 10, in order
RECURSIVE Processed(_)
Processed(documents) ==
    IF documents = <<>> THEN <<>>
    ELSE LET text == DocText(Head(documents))
         IN  (IF text # <<>> /\ Len(Strip(text)) > MinDocLen
              THEN <<Strip(text)>> ELSE <<>>) \o Processed(Tail(documents))

StoreIds(st) == {st[i].id : i \in 1..Len(st)}

\* str(uuid.uuid4()): an id no document of the collection has
RECURSIVE FreshIds(_, _)
FreshIds(used, n) ==
    IF n = 0 THEN <<>>
    ELSE LET id == CHOOSE x \in 1..(Cardinality(used) + 1) : x \notin used
         IN  <<id>> \o FreshIds(used \cup {id}, n - 1)

\* lines 114-124: one document per processed text; the k-th datetime.now() of
\* the list comprehension is read step * (k - 1) microseconds after the first
NewDocs(st, processed, source, t, step) ==
    LET ids == FreshIds(StoreIds(st), Len(processed))
    IN  [k \in 1..Len(processed) |->
            [id |-> ids[k], document |-> processed[k], source |-> source,
             timestamp |-> IsoFormat(PlusMicros(t, step * (k - 1))),
             length |-> Len(processed[k])]]

\* self.embeddings_service as DatabaseManager is given it: None ("none"), the
\* EmbeddingsService ("real"), or an object whose embed and embed_batch answer
\* with one vector too few ("short"), the case line 109 guards against
Services == {"none", "real", "short"}

\* what the service gives back when the EmbeddingsService would give e
ServiceAnswer(service, e) ==
    IF service = "short"
    THEN [e EXCEPT !.result = Take(e.result, Len(e.result) - 1)]
    ELSE e

\* self.embeddings_service.embed_batch(processed_docs)
ServiceEmbedBatch(service, c, texts, outs, size) ==
    ServiceAnswer(service, embed_batch(c, texts, DefaultBatchSize, outs, size))

\* self.embeddings_service.embed([query])
ServiceEmbed(service, c, texts, outs, size) ==
    ServiceAnswer(service, embed(c, texts, outs, size))

\* self.collection.add(...): all the documents, or an exception and none
CollectionAddPartial(st, docs, insert_ok) ==
    IF insert_ok THEN st \o docs ELSE st \o Take(docs, 1)

CollectionAdd(st, docs, insert_ok) ==
    IF insert_ok THEN st \o docs ELSE st

\* the try block of add_documents (lines 88-135): ret, the collection and the
\* cache after it, the calls it made, and raised: an exception left it.
\* insert_ok: collection.add does not raise.
\* return False with nothing done
AddNothing(st, c) ==
    [ret |-> FALSE, store |-> st, cache |-> c, calls |-> <<>>, raised |-> FALSE]

\* lines 109-135, e being what embed_batch gave
AddEmbedded(st, e, processed, source, insert_ok, t, step) ==
    IF e.result = <<>> \/ Len(e.result) # Len(processed)
    THEN [ret |-> FALSE, store |-> st, cache |-> e.cache, calls |-> <<"embed_batch">>,
          raised |-> FALSE]
    ELSE [ret    |-> insert_ok,
          store  |-> CollectionAdd(st, NewDocs(st, processed, source, t, step), insert_ok),
          cache  |-> e.cache,
          calls  |-> <<"embed_batch", "add">>,
          raised |-> ~insert_ok]

\* lines 98-135, processed being processed_docs
AddProcessed(st, c, service, processed, source, outs, insert_ok, t, step, size) ==
    IF processed = <<>> THEN AddNothing(st, c)
    ELSE IF service = "none" THEN AddNothing(st, c)
    ELSE AddEmbedded(st, ServiceEmbedBatch(service, c, processed, outs, size),
                     processed, source, insert_ok, t, step)

AddDocumentsBody(st, c, service, documents, source, outs, insert_ok, t, step, size) ==
    AddProcessed(st, c, service, Processed(documents), source, outs, insert_ok, t, step,
                 size)

\* except Exception: return False
AddCaught(r) == IF r.raised THEN [r EXCEPT !.ret = FALSE, !.raised = FALSE] ELSE r

\* add_documents(documents, source): False for an empty list, otherwise the try
\* block under its except
add_documents(st, c, service, documents, source, outs, insert_ok, t, step, size) ==
    IF documents = <<>> THEN AddNothing(st, c)
    ELSE AddCaught(AddDocumentsBody(st, c, service, documents, source, outs, insert_ok,
                                    t, step, size))

\* "[Источник: {source}]\n{doc}"
FormatDoc(source, doc) ==
    <<91, 1048, 1089, 1090, 1086, 1095, 1085, 1080, 1082, 58, 32>>
       \o source \o <<93, 10>> \o doc

\* "\n\n".join(parts)
RECURSIVE Join(_)
Join(parts) ==
    IF parts = <<>> THEN <<>>
    ELSE IF Len(parts) = 1 THEN parts[1]
    ELSE parts[1] \o <<10, 10>> \o Join(Tail(parts))

\* distances the index returns, in thousandths: 0.0, 0.65, 0.651
Distances == {0, 650, 651}

\* top_k arguments of search
TopKs == {1, 2}

\* What collection.query answers (resp):
\*   kind "ok"      documents hits (positions of the collection, in the order the
\*                  index gives them), their distances and metadatas
\*   kind "nodist"  the same without a 'distances' key
\*   kind "nometa"  the same without a 'metadatas' key
\*   kind "short"   a distances list shorter than the documents list
\*   kind "empty"   no documents
\*   kind "raise"   the query raises
Hits(n, top_k) ==
    LET k == IF top_k < n THEN top_k ELSE n
    IN  {h \in [1..k -> 1..n] : \A a, b \in 1..k : a # b => h[a] # h[b]}

QueryResponses(n, top_k) ==
    LET k == IF top_k < n THEN top_k ELSE n
    IN  {[kind |-> "ok", hits |-> h, distances |-> d] :
            h \in Hits(n, top_k), d \in [1..k -> Distances]}
        \cup {[kind |-> kind, hits |-> [i \in 1..k |-> i],
               distances |-> [i \in 1..k |-> 0]] :
                kind \in {"nodist", "nometa", "short"}}
        \cup {[kind |-> kind, hits |-> <<>>, distances |-> <<>>] :
                kind \in {"empty", "raise"}}

NoResponse == [kind |-> "unused", hits |-> <<>>, distances |-> <<>>]

\* the threshold of the filter, line 176
ConfiguredThreshold == cfgThreshold

FilterThreshold == SimThreshold

\* similarity >= 0.35
Passes(similarity) == similarity >= FilterThreshold

\* the filter loop putting each passing result before the ones found so far
RECURSIVE ValidDocsPrependFrom(_, _, _)
ValidDocsPrependFrom(i, st, resp) ==
    IF i > Len(resp.hits) THEN <<>>
    ELSE ValidDocsPrependFrom(i + 1, st, resp)
         \o (IF Passes(SimScale - resp.distances[i])
             THEN <<FormatDoc(st[resp.hits[i]].source, st[resp.hits[i]].document)>>
             ELSE <<>>)

\* lines 167-181, from result i: the formatted documents that pass the filter
RECURSIVE ValidDocsFrom(_, _, _)
ValidDocsFrom(i, st, resp) ==
    IF i > Len(resp.hits) THEN <<>>
    ELSE LET distance   == IF resp.kind = "nodist" THEN 0 ELSE resp.distances[i]
             similarity == SimScale - distance
             source     == IF resp.kind = "nometa" THEN Unknown
                           ELSE st[resp.hits[i]].source
         IN  (IF Passes(similarity)
              THEN <<FormatDoc(source, st[resp.hits[i]].document)>> ELSE <<>>)
             \o ValidDocsFrom(i + 1, st, resp)

\* not query or not query.strip()
IsBlankUnstripped(query) == query = <<>>

IsBlank(query) == query = <<>> \/ Strip(query) = <<>>

\* what the try block of search comes to
SearchOut(ret, c, calls, raised) ==
    [ret |-> ret, cache |-> c, calls |-> calls, raised |-> raised]

\* lines 152-183, e being what embed gave
SearchEmbedded(st, e, resp) ==
    IF e.result = <<>> \/ e.result[1] = <<>>
    THEN SearchOut(<<>>, e.cache, <<"count", "embed">>, FALSE)
    ELSE IF resp.kind = "raise"
    THEN SearchOut(None, e.cache, <<"count", "embed", "query">>, TRUE)
    ELSE IF resp.hits = <<>>
    THEN SearchOut(<<>>, e.cache, <<"count", "embed", "query">>, FALSE)
    ELSE IF resp.kind = "short"
    THEN SearchOut(None, e.cache, <<"count", "embed", "query">>, TRUE)
    ELSE SearchOut(Join(ValidDocsFrom(1, st, resp)), e.cache,
                   <<"count", "embed", "query">>, FALSE)

\* the try block of search (lines 144-183); raised: an exception left it.
\* count_ok: collection.count() does not raise.
SearchBody(st, c, service, query, top_k, outs, resp, count_ok, size) ==
    IF IsBlank(query) THEN SearchOut(<<>>, c, <<>>, FALSE)
    ELSE IF ~count_ok THEN SearchOut(None, c, <<"count">>, TRUE)
    ELSE IF Len(st) = 0 THEN SearchOut(<<>>, c, <<"count">>, FALSE)
    ELSE IF service = "none" THEN SearchOut(None, c, <<"count">>, TRUE)
    ELSE SearchEmbedded(st, ServiceEmbed(service, c, <<query>>, outs, size), resp)

\* except Exception: return ""
SearchCaught(r) == IF r.raised THEN [r EXCEPT !.ret = <<>>, !.raised = FALSE] ELSE r

\* search(query, top_k): the try block under its except
search_uncaught(st, c, service, query, top_k, outs, resp, count_ok, size) ==
    SearchBody(st, c, service, query, top_k, outs, resp, count_ok, size)

search(st, c, service, query, top_k, outs, resp, count_ok, size) ==
    SearchCaught(SearchBody(st, c, service, query, top_k, outs, resp, count_ok, size))

\* lines 201-204: the ids of the documents whose timestamp is below the cutoff
RECURSIVE OldIdsFrom(_, _, _)
OldIdsFrom(i, st, cutoff_date) ==
    IF i > Len(st) THEN <<>>
    ELSE (IF LexLess(st[i].timestamp, cutoff_date) THEN <<st[i].id>> ELSE <<>>)
         \o OldIdsFrom(i + 1, st, cutoff_date)

\* collection.delete(ids=ids)
RECURSIVE CollectionDelete(_, _)
CollectionDelete(st, ids) ==
    IF st = <<>> THEN <<>>
    ELSE (IF Head(st).id \in Range(ids) THEN <<>> ELSE <<Head(st)>>)
         \o CollectionDelete(Tail(st), ids)

\* lines 206-212, old_ids being the ids found
DeleteOld(st, old_ids, fail) ==
    IF old_ids = <<>> THEN [ret |-> 0, store |-> st, calls |-> <<"get">>]
    ELSE IF fail = "delete"
    THEN [ret |-> 0, store |-> st, calls |-> <<"get", "delete">>]
    ELSE [ret |-> Len(old_ids), store |-> CollectionDelete(st, old_ids),
          calls |-> <<"get", "delete">>]

\* delete_old_documents(days) at time t.  fail: "no", or the Chroma call that
\* raises ("get", "delete").
delete_old_documents(st, days, t, fail) ==
    IF fail = "get" THEN [ret |-> 0, store |-> st, calls |-> <<"get">>]
    ELSE IF st = <<>> THEN [ret |-> 0, store |-> st, calls |-> <<"get">>]
    ELSE DeleteOld(st, OldIdsFrom(1, st, IsoFormat(MinusDays(t, days))), fail)

\* clear()
clear(st, fail) ==
    IF fail = "get" THEN [ret |-> FALSE, store |-> st, calls |-> <<"get">>]
    ELSE IF st = <<>> THEN [ret |-> TRUE, store |-> st, calls |-> <<"get">>]
    ELSE IF fail = "delete"
    THEN [ret |-> FALSE, store |-> st, calls |-> <<"get", "delete">>]
    ELSE [ret |-> TRUE, store |-> <<>>, calls |-> <<"get", "delete">>]

\* the queries given to search: "", " \n", " q"
Queries == {<<>>, <<32, 10>>, <<32, 113>>}

\* configured similarity thresholds (CHROMA_SIMILARITY_THRESHOLD, 0.6 by default)
ConfiguredThresholds == {600, 200}

\* DatabaseManager(embeddings_service) over an empty collection
DbInit ==
    /\ store = <<>>
    /\ now = StartTime
    /\ svc \in Services
    /\ cfgThreshold \in ConfiguredThresholds
    /\ dbPc = "idle"
    /\ dbCall = NoCall

\* add_documents(documents, source) returns r
AddReturns(documents, source, o, insert_ok, step, r) ==
    /\ store' = r.store
    /\ cache' = r.cache
    /\ now' = PlusMicros(now, step)
    /\ dbCall' = [op |-> "add_documents", documents |-> documents,
                  source |-> source, insert_ok |-> insert_ok,
                  service |-> svc, outcome |-> o, at |-> now,
                  step |-> step, before |-> store, ret |-> r.ret,
                  calls |-> r.calls, raised |-> r.raised]
    /\ dbPc' = "returned"

\* the call with n surviving documents, which are embedded or not (embeds)
AddCalled(documents, source, processed, n, embeds) ==
    /\ Len(store) + n <= MaxStore
    /\ \E o \in (IF embeds THEN Outcomes ELSE {"ok"}),
          insert_ok \in (IF embeds THEN BOOLEAN ELSE {TRUE}),
          step \in (IF embeds /\ n > 1 /\ TicksMade(now) < MaxTicks THEN 0..1 ELSE {0}) :
         AddReturns(documents, source, o, insert_ok, step,
                    add_documents(store, cache, svc, documents, source,
                                  Rep(o, IF embeds
                                         THEN Requests(cache, processed, DefaultBatchSize,
                                                       DbCacheSize)
                                         ELSE 0),
                                  insert_ok, now, step, DbCacheSize))

\* the call, processed being the documents that survive
AddCalling(documents, source, processed) ==
    AddCalled(documents, source, processed, Len(processed),
              processed # <<>> /\ svc # "none")

\* await db.add_documents(documents, source): async with self.write_lock around
\* a body that never awaits, so the lock is free before and after.  The server
\* answers the requests of one call alike (SpecEmbed has the mixed answers).
AddDocuments ==
    /\ dbPc = "idle"
    /\ lock = 0
    /\ \E documents \in SeqsUpTo(RawDocs, MaxDocsIn), source \in Sources :
         AddCalling(documents, source, Processed(documents))
    /\ UNCHANGED <<svc, cfgThreshold, embPc, embCall>>

\* search gets as far as the embedding of the query
SearchAsks(query, count_ok) ==
    ~IsBlank(query) /\ count_ok /\ Len(store) > 0 /\ svc # "none"

\* the requests the embedding of the query makes
SearchRequests(query, count_ok) ==
    IF SearchAsks(query, count_ok)
    THEN Len(Lookup(cache, <<query>>).uncached_indices) ELSE 0

\* the answers collection.query can give, if search gets as far
SearchResponses(query, top_k, outs, count_ok) ==
    IF SearchAsks(query, count_ok)
       /\ ServiceEmbed(svc, cache, <<query>>, outs, DbCacheSize).result
             \notin {<<>>, << <<>> >>}
    THEN QueryResponses(Len(store), top_k)
    ELSE {NoResponse}

\* search(query, top_k) returns r
SearchReturns(query, top_k, outs, resp, count_ok, r) ==
    /\ cache' = r.cache
    /\ dbCall' = [op |-> "search", query |-> query, top_k |-> top_k,
                  service |-> svc, outs |-> outs, resp |-> resp,
                  count_ok |-> count_ok, before |-> store,
                  cache_before |-> cache, ret |-> r.ret,
                  calls |-> r.calls, raised |-> r.raised]
    /\ dbPc' = "returned"

\* db.search(query, top_k), as run_in_executor runs it
Search ==
    /\ dbPc = "idle"
    /\ \E query \in Queries, top_k \in TopKs, count_ok \in BOOLEAN :
         \E outs \in [1..SearchRequests(query, count_ok) -> Outcomes] :
            \E resp \in SearchResponses(query, top_k, outs, count_ok) :
               SearchReturns(query, top_k, outs, resp, count_ok,
                             search(store, cache, svc, query, top_k, outs, resp,
                                    count_ok, DbCacheSize))
    /\ UNCHANGED <<store, now, svc, cfgThreshold, embPc, embCall>>

\* delete_old_documents(days) returns r
DeleteReturns(days, fail, r) ==
    /\ store' = r.store
    /\ dbCall' = [op |-> "delete_old_documents", days |-> days, fail |-> fail,
                  at |-> now, before |-> store, ret |-> r.ret,
                  calls |-> r.calls, raised |-> FALSE]
    /\ dbPc' = "returned"

\* await db.delete_old_documents(days): the lock as in AddDocuments
DeleteOldDocuments ==
    /\ dbPc = "idle"
    /\ lock = 0
    /\ \E days \in 0..MaxDays, fail \in {"no", "get", "delete"} :
         DeleteReturns(days, fail, delete_old_documents(store, days, now, fail))
    /\ UNCHANGED <<now, svc, cfgThreshold, embVars>>

\* clear() returns r
ClearReturns(fail, r) ==
    /\ store' = r.store
    /\ dbCall' = [op |-> "clear", fail |-> fail, before |-> store,
                  ret |-> r.ret, calls |-> r.calls, raised |-> FALSE]
    /\ dbPc' = "returned"

\* db.clear()
Clear ==
    /\ dbPc = "idle"
    /\ \E fail \in {"no", "get", "delete"} : ClearReturns(fail, clear(store, fail))
    /\ UNCHANGED <<now, svc, cfgThreshold, embVars>>

\* time passes: a microsecond, a second or a day
Tick ==
    /\ dbPc = "idle"
    /\ TicksMade(now) < MaxTicks
    /\ \E unit \in {"us", "sec", "day"} :
         now' = [day |-> now.day + (IF unit = "day" THEN 1 ELSE 0),
                 sec |-> now.sec + (IF unit = "sec" THEN 1 ELSE 0),
                 us  |-> now.us  + (IF unit = "us"  THEN 1 ELSE 0)]
    /\ UNCHANGED <<store, svc, cfgThreshold, dbPc, dbCall, embVars>>

\* the process starts again: DatabaseManager(embeddings_service) is built anew
\* over the persistent collection, with a new (empty) EmbeddingsService or none
Restart ==
    /\ dbPc = "idle"
    /\ svc' \in Services \ {svc}
    /\ cache' = <<>>
    /\ UNCHANGED <<store, now, cfgThreshold, dbPc, dbCall, embPc, embCall>>

\* the caller takes the returned value
DbReturn ==
    /\ dbPc = "returned"
    /\ dbPc' = "idle"
    /\ dbCall' = NoCall
    /\ UNCHANGED <<store, now, svc, cfgThreshold, embVars>>

(* config.MODE_CONFIGS *)

Modes == {"short", "default", "detailed"}

\* temperatures are in tenths; "db_search" and "web_search" are True in the
\* three defaults
ModeConfig(num_predict, temperature, top_k, web_search_results) ==
    [num_predict |-> num_predict, temperature |-> temperature, top_k |-> top_k,
     db_search |-> TRUE, web_search |-> TRUE,
     web_search_results |-> web_search_results]

\* _DEFAULT_SHORT, _DEFAULT_DEFAULT, _DEFAULT_DETAILED
DefaultModes ==
    [mode \in Modes |->
        CASE mode = "short"    -> ModeConfig(300, 2, 2, 2)
          [] mode = "default"  -> ModeConfig(1000, 5, 3, 3)
          [] mode = "detailed" -> ModeConfig(2000, 7, 5, 5)]

DbFrozen   == store = <<>> /\ now = StartTime /\ svc = "real" /\ cfgThreshold = 0
                 /\ dbPc = "idle" /\ dbCall = NoCall
LockFrozen == lock = 0 /\ task = <<>>
WebFrozen  == webPc = "idle" /\ webCall = NoCall
LlmFrozen  == modeCfg = DefaultModes /\ llmPc = "idle" /\ llmCall = NoCall
RagFrozen  == ragPc = "idle" /\ ragCall = NoCall
BotFrozen  == botPc = "idle" /\ botCall = NoCall /\ userMode = ""

InitEmbed == EmbInit /\ DbFrozen /\ LockFrozen /\ WebFrozen /\ LlmFrozen /\ RagFrozen /\ BotFrozen

NextEmbed ==
    \/ Embed      /\ UNCHANGED <<dbVars, lockVars, webVars, llmVars, ragVars, botVars>>
    \/ EmbedBatch /\ UNCHANGED <<dbVars, lockVars, webVars, llmVars, ragVars, botVars>>
    \/ ClearCache /\ UNCHANGED <<dbVars, lockVars, webVars, llmVars, ragVars, botVars>>
    \/ EmbReturn  /\ UNCHANGED <<dbVars, lockVars, webVars, llmVars, ragVars, botVars>>

SpecEmbed == InitEmbed /\ [][NextEmbed]_vars

InitDb == DbInit /\ cfgThreshold = 600 /\ EmbInit /\ LockFrozen /\ WebFrozen
             /\ LlmFrozen /\ RagFrozen /\ BotFrozen

\* the writing side of DatabaseManager
NextDb ==
    \/ AddDocuments       /\ UNCHANGED <<lockVars, webVars, llmVars, ragVars, botVars>>
    \/ DeleteOldDocuments /\ UNCHANGED <<lockVars, webVars, llmVars, ragVars, botVars>>
    \/ Clear              /\ UNCHANGED <<lockVars, webVars, llmVars, ragVars, botVars>>
    \/ Tick               /\ UNCHANGED <<lockVars, webVars, llmVars, ragVars, botVars>>
    \/ Restart            /\ UNCHANGED <<lockVars, webVars, llmVars, ragVars, botVars>>
    \/ DbReturn           /\ UNCHANGED <<lockVars, webVars, llmVars, ragVars, botVars>>

SpecDb == InitDb /\ [][NextDb]_vars

InitSearch == DbInit /\ EmbInit /\ LockFrozen /\ WebFrozen /\ LlmFrozen /\ RagFrozen /\ BotFrozen

\* the reading side: the collection is filled and searched
NextSearch ==
    \/ AddDocuments /\ UNCHANGED <<lockVars, webVars, llmVars, ragVars, botVars>>
    \/ Search       /\ UNCHANGED <<lockVars, webVars, llmVars, ragVars, botVars>>
    \/ Restart      /\ UNCHANGED <<lockVars, webVars, llmVars, ragVars, botVars>>
    \/ DbReturn     /\ UNCHANGED <<lockVars, webVars, llmVars, ragVars, botVars>>

SpecSearch == InitSearch /\ [][NextSearch]_vars

----------------------------------------------------------------------------
(* DatabaseManager.write_lock: the writers step by step *)

MaxTasks == 2     \* callers of the writing methods at one time

Tasks == 1..MaxTasks

\* A task is at pc: "idle", or the statement it is to execute next:
\*   "acquire"  async with self.write_lock
\*   "embed"    the try block of add_documents up to embed_batch
\*   "insert"   self.collection.add
\*   "get"      self.collection.get
\*   "delete"   self.collection.delete
\*   "release"  the end of the async with block
IdleTask == [op |-> "none", pc |-> "idle", documents |-> <<>>, days |-> 0, ids |-> <<>>]

LockInit ==
    /\ lock = 0
    /\ task = [t \in Tasks |-> IdleTask]

\* add_documents(documents) is called with a list that is not empty: the
\* coroutine is at async with self.write_lock
CallAdd(t) ==
    /\ task[t].pc = "idle"
    /\ \E documents \in [1..1 -> RawDocs] :
         task' = [task EXCEPT ![t] = [IdleTask EXCEPT !.op = "add_documents",
                                                      !.pc = "acquire",
                                                      !.documents = documents]]
    /\ UNCHANGED <<lock, store, cache, now>>

\* delete_old_documents(days) is called
CallDelete(t) ==
    /\ task[t].pc = "idle"
    /\ \E days \in 0..MaxDays :
         task' = [task EXCEPT ![t] = [IdleTask EXCEPT !.op = "delete_old_documents",
                                                      !.pc = "acquire",
                                                      !.days = days]]
    /\ UNCHANGED <<lock, store, cache, now>>

\* clear() is called: a plain method, it is at self.collection.get() at once
CallClear(t) ==
    /\ task[t].pc = "idle"
    /\ task' = [task EXCEPT ![t] = [IdleTask EXCEPT !.op = "clear", !.pc = "get"]]
    /\ UNCHANGED <<lock, store, cache, now>>

\* async with self.write_lock: the coroutine waits until the lock is free
Acquire(t) ==
    /\ task[t].pc = "acquire"
    /\ lock = 0
    /\ lock' = t
    /\ task' = [task EXCEPT ![t].pc =
                   IF task[t].op = "add_documents" THEN "embed" ELSE "get"]
    /\ UNCHANGED <<store, cache, now>>

\* add_documents, lines 88-111: the documents are processed and embedded
AddEmbed(t) ==
    /\ task[t].pc = "embed"
    /\ IF Processed(task[t].documents) = <<>>
       THEN /\ task' = [task EXCEPT ![t].pc = "release"]
            /\ UNCHANGED cache
       ELSE /\ cache' = ServiceEmbedBatch("real", cache, Processed(task[t].documents),
                                          Rep("ok", Len(task[t].documents)),
                                          DbCacheSize).cache
            /\ task' = [task EXCEPT ![t].pc = "insert"]
    /\ UNCHANGED <<lock, store, now>>

\* add_documents, lines 113-135: self.collection.add; it raises when the
\* collection can take no more
AddInsert(t) ==
    /\ task[t].pc = "insert"
    /\ LET processed == Processed(task[t].documents)
       IN  \E insert_ok \in (IF Len(store) + Len(processed) <= MaxStore
                             THEN BOOLEAN ELSE {FALSE}) :
              store' = CollectionAdd(store, NewDocs(store, processed, Manual, now, 0),
                                     insert_ok)
    /\ task' = [task EXCEPT ![t].pc = "release"]
    /\ UNCHANGED <<lock, cache, now>>

\* delete_old_documents, lines 193-204: self.collection.get and the old ids
DeleteGet(t) ==
    /\ task[t].pc = "get"
    /\ task[t].op = "delete_old_documents"
    /\ LET old_ids == OldIdsFrom(1, store, IsoFormat(MinusDays(now, task[t].days)))
       IN  task' = [task EXCEPT ![t].ids = old_ids,
                                ![t].pc = IF old_ids = <<>> THEN "release" ELSE "delete"]
    /\ UNCHANGED <<lock, store, cache, now>>

\* delete_old_documents, line 207: self.collection.delete(ids=old_ids)
DeleteDelete(t) ==
    /\ task[t].pc = "delete"
    /\ task[t].op = "delete_old_documents"
    /\ store' = CollectionDelete(store, task[t].ids)
    /\ task' = [task EXCEPT ![t].pc = "release"]
    /\ UNCHANGED <<lock, cache, now>>

\* the async with block is left, the method returns
Release(t) ==
    /\ task[t].pc = "release"
    /\ lock' = 0
    /\ task' = [task EXCEPT ![t] = IdleTask]
    /\ UNCHANGED <<store, cache, now>>

\* clear, lines 239-240: self.collection.get(); with no ids it returns True
ClearGet(t) ==
    /\ task[t].pc = "get"
    /\ task[t].op = "clear"
    /\ LET ids == [i \in 1..Len(store) |-> store[i].id]
       IN  task' = [task EXCEPT ![t] = IF ids = <<>> THEN IdleTask
                                       ELSE [@ EXCEPT !.ids = ids, !.pc = "delete"]]
    /\ UNCHANGED <<lock, store, cache, now>>

\* clear, line 241: self.collection.delete(ids=all_docs['ids']), and it returns
ClearDelete(t) ==
    /\ task[t].pc = "delete"
    /\ task[t].op = "clear"
    /\ store' = CollectionDelete(store, task[t].ids)
    /\ task' = [task EXCEPT ![t] = IdleTask]
    /\ UNCHANGED <<lock, cache, now>>

\* a microsecond passes
LockTick ==
    /\ TicksMade(now) < MaxTicks
    /\ now' = PlusMicros(now, 1)
    /\ UNCHANGED <<lock, task, store, cache>>

InitLock ==
    /\ LockInit
    /\ store = <<>> /\ now = StartTime /\ svc = "real" /\ cfgThreshold = 600
    /\ dbPc = "idle" /\ dbCall = NoCall
    /\ EmbInit
    /\ WebFrozen
    /\ LlmFrozen
    /\ RagFrozen /\ BotFrozen

LockRest == <<svc, cfgThreshold, dbPc, dbCall, embPc, embCall, webVars, llmVars, ragVars, botVars>>

NextLock ==
    \/ (\E t \in Tasks : CallAdd(t))      /\ UNCHANGED LockRest
    \/ (\E t \in Tasks : CallDelete(t))   /\ UNCHANGED LockRest
    \/ (\E t \in Tasks : CallClear(t))    /\ UNCHANGED LockRest
    \/ (\E t \in Tasks : Acquire(t))      /\ UNCHANGED LockRest
    \/ (\E t \in Tasks : AddEmbed(t))     /\ UNCHANGED LockRest
    \/ (\E t \in Tasks : AddInsert(t))    /\ UNCHANGED LockRest
    \/ (\E t \in Tasks : DeleteGet(t))    /\ UNCHANGED LockRest
    \/ (\E t \in Tasks : DeleteDelete(t)) /\ UNCHANGED LockRest
    \/ (\E t \in Tasks : Release(t))      /\ UNCHANGED LockRest
    \/ (\E t \in Tasks : ClearGet(t))     /\ UNCHANGED LockRest
    \/ (\E t \in Tasks : ClearDelete(t))  /\ UNCHANGED LockRest
    \/ LockTick                           /\ UNCHANGED LockRest

SpecLock == InitLock /\ [][NextLock]_vars

----------------------------------------------------------------------------
(* The writers that take write_lock, with the exits by exception.  Both
   methods hold the lock in an async with block around a try / except
   Exception, so a raising call of the collection or of the embeddings service
   goes to the except clause, the method returns False or 0, and the block is
   left.  asyncio.Lock wakes its waiters first come first served. *)

\* the exception leaves the method with the lock still held
WriterRaisesHolding(t, at) ==
    /\ task[t].pc \in at
    /\ task' = [task EXCEPT ![t] = IdleTask]
    /\ UNCHANGED <<lock, store, cache, now>>

\* a statement of the try block raises: except Exception, then the end of the
\* async with block
WriterRaises(t, at) ==
    /\ task[t].pc \in at
    /\ task' = [task EXCEPT ![t].pc = "release"]
    /\ UNCHANGED <<lock, store, cache, now>>

\* add_documents, lines 134-136: embed_batch or collection.add raised
AddRaise(t) ==
    /\ task[t].op = "add_documents"
    /\ WriterRaises(t, {"embed", "insert"})

\* delete_old_documents, lines 214-216: collection.get or collection.delete raised
DeleteRaise(t) ==
    /\ task[t].op = "delete_old_documents"
    /\ WriterRaises(t, {"get", "delete"})

\* the statements of a writer that holds the lock go on.  A writer inside the
\* block always has one of these steps enabled (at the embedding, AddRaise),
\* and between two embeddings of one writer lies its Release, so that weak
\* fairness of this action is that of the action with AddEmbed added.
WriterStep(t) ==
    \/ AddInsert(t) \/ AddRaise(t)
    \/ DeleteGet(t) \/ DeleteDelete(t) \/ DeleteRaise(t)
    \/ Release(t)

NextWriters ==
    \/ (\E t \in Tasks : CallAdd(t))      /\ UNCHANGED LockRest
    \/ (\E t \in Tasks : CallDelete(t))   /\ UNCHANGED LockRest
    \/ (\E t \in Tasks : Acquire(t))      /\ UNCHANGED LockRest
    \/ (\E t \in Tasks : AddEmbed(t))     /\ UNCHANGED LockRest
    \/ (\E t \in Tasks : AddInsert(t))    /\ UNCHANGED LockRest
    \/ (\E t \in Tasks : AddRaise(t))     /\ UNCHANGED LockRest
    \/ (\E t \in Tasks : DeleteGet(t))    /\ UNCHANGED LockRest
    \/ (\E t \in Tasks : DeleteDelete(t)) /\ UNCHANGED LockRest
    \/ (\E t \in Tasks : DeleteRaise(t))  /\ UNCHANGED LockRest
    \/ (\E t \in Tasks : Release(t))      /\ UNCHANGED LockRest
    \/ LockTick                           /\ UNCHANGED LockRest

\* a writer that holds the lock runs on; a waiter gets the lock when its turn
\* comes, however often the lock is taken again by others
WritersFair ==
    \A t \in Tasks :
        /\ WF_vars(WriterStep(t) /\ UNCHANGED LockRest)
        /\ SF_vars(Acquire(t) /\ UNCHANGED LockRest)

SpecWriters == InitLock /\ [][NextWriters]_vars /\ WritersFair

----------------------------------------------------------------------------
(* EmbeddingsService.embed run by several threads at once.  search calls embed
   from an executor thread and add_documents calls embed_batch on the event
   loop; embed takes no lock, so the threads interleave between the statements
   of embed that read and write self._embed_cache. *)

MaxThreadTexts == 2     \* longest list a thread gives to embed

\* the texts the threads embed: "a", "b", "c", "d", more than the cache holds
ThreadChars == {97, 98, 99, 100}

\* a query alone, or a list of texts in the order of the alphabet
ThreadTexts ==
    {s \in SeqsUpTo({<<c>> : c \in ThreadChars}, MaxThreadTexts) :
        /\ s # <<>>
        /\ \A i \in 1..(Len(s) - 1) : s[i + 1][1] = s[i][1] + 1}

\* A thread is at pc: "idle", "returned", "raised", or the statement it is to
\* execute next:
\*   "test"    if text_hash in self._embed_cache            (line 40)
\*   "read"    embeddings[i] = self._embed_cache[text_hash] (line 41)
\*   "call"    new_embeddings = self._call_ollama(uncached) (line 48)
\*   "insert"  self._embed_cache[text_hash] = embedding     (lines 51-54)
\*   "check"   if len(self._embed_cache) > self.cache_size  (line 57)
\*   "iter"    iter(self._embed_cache)                      (line 58)
\*   "next"    oldest_key = next(...)                       (line 58)
\*   "del"     del self._embed_cache[oldest_key]            (line 59)
IdleThread ==
    [pc |-> "idle", texts |-> <<>>, i |-> 0, embeddings |-> <<>>,
     uncached_indices |-> <<>>, new_embeddings |-> <<>>, k |-> 0, used |-> 0,
     oldest_key |-> 0, error |-> "none"]

CacheThreadsInit ==
    /\ lock = 0
    /\ task = [t \in Tasks |-> IdleThread]

\* del c[k]
CacheDel(c, k) == SelectSeq(c, LAMBDA e : e.key # k)

\* the statement raises: the exception leaves embed
ThreadRaises(t, error) ==
    task' = [task EXCEPT ![t].pc = "raised", ![t].error = error]

\* embed(texts) is entered with a list that is not empty (lines 30-35)
ThreadEmbed(t) ==
    /\ task[t].pc = "idle"
    /\ \E texts \in ThreadTexts :
          task' = [task EXCEPT ![t] =
                      [IdleThread EXCEPT !.pc = "test", !.texts = texts, !.i = 1,
                                         !.embeddings = Rep(None, Len(texts))]]
    /\ UNCHANGED <<cache, lock>>

\* line 40, and lines 43-44 on a miss; after the loop, line 47
ThreadTest(t) ==
    /\ task[t].pc = "test"
    /\ task' = [task EXCEPT ![t] =
          IF task[t].i > Len(task[t].texts)
          THEN [@ EXCEPT !.pc = IF task[t].uncached_indices = <<>>
                                THEN "returned" ELSE "call"]
          ELSE IF Hash(task[t].texts[task[t].i]) \in CacheKeys(cache)
          THEN [@ EXCEPT !.pc = "read"]
          ELSE [@ EXCEPT !.uncached_indices = Append(@, task[t].i),
                         !.i = @ + 1]]
    /\ UNCHANGED <<cache, lock>>

\* line 41: the key found at line 40 is read; it is gone if another thread
\* evicted it in between (KeyError)
ThreadRead(t) ==
    /\ task[t].pc = "read"
    /\ IF Hash(task[t].texts[task[t].i]) \in CacheKeys(cache)
       THEN task' = [task EXCEPT
                       ![t].embeddings[task[t].i] =
                           CacheGet(cache, Hash(task[t].texts[task[t].i])),
                       ![t].i = @ + 1,
                       ![t].pc = "test"]
       ELSE ThreadRaises(t, "KeyError")
    /\ UNCHANGED <<cache, lock>>

\* line 48: one request per uncached text, each answered with its embedding
ThreadCall(t) ==
    /\ task[t].pc = "call"
    /\ task' = [task EXCEPT
                   ![t].new_embeddings =
                       _call_ollama([j \in 1..Len(task[t].uncached_indices) |->
                                        task[t].texts[task[t].uncached_indices[j]]],
                                    Rep("ok", Len(task[t].uncached_indices))),
                   ![t].k = 1,
                   ![t].pc = "insert"]
    /\ UNCHANGED <<cache, lock>>

\* lines 51-54: the next pair of zip(uncached_indices, new_embeddings) is put
\* in the cache and in the result; after the last pair, line 61
ThreadInsert(t) ==
    /\ task[t].pc = "insert"
    /\ IF task[t].k > Len(task[t].uncached_indices)
       THEN /\ task' = [task EXCEPT ![t].pc = "returned"]
            /\ UNCHANGED cache
       ELSE /\ cache' = CacheSet(cache,
                                 Hash(task[t].texts[task[t].uncached_indices[task[t].k]]),
                                 task[t].new_embeddings[task[t].k])
            /\ task' = [task EXCEPT
                           ![t].embeddings[task[t].uncached_indices[task[t].k]] =
                               task[t].new_embeddings[task[t].k],
                           ![t].pc = "check"]
    /\ UNCHANGED lock

\* line 57
ThreadCheck(t) ==
    /\ task[t].pc = "check"
    /\ task' = [task EXCEPT ![t] =
          IF Len(cache) > CacheSize
          THEN [@ EXCEPT !.pc = "iter"]
          ELSE [@ EXCEPT !.k = @ + 1, !.pc = "insert"]]
    /\ UNCHANGED <<cache, lock>>

\* line 58, iter(self._embed_cache): the iterator remembers the size of the dict
ThreadIter(t) ==
    /\ task[t].pc = "iter"
    /\ task' = [task EXCEPT ![t].used = Len(cache), ![t].pc = "next"]
    /\ UNCHANGED <<cache, lock>>

\* line 58, next(...): the first key; RuntimeError if the dict changed size
\* since iter, StopIteration if it is empty
ThreadNext(t) ==
    /\ task[t].pc = "next"
    /\ IF Len(cache) # task[t].used THEN ThreadRaises(t, "RuntimeError")
       ELSE IF cache = <<>> THEN ThreadRaises(t, "StopIteration")
       ELSE task' = [task EXCEPT ![t].oldest_key = cache[1].key, ![t].pc = "del"]
    /\ UNCHANGED <<cache, lock>>

\* line 59: KeyError if another thread has deleted the key already
ThreadDel(t) ==
    /\ task[t].pc = "del"
    /\ IF task[t].oldest_key \in CacheKeys(cache)
       THEN /\ cache' = CacheDel(cache, task[t].oldest_key)
            /\ task' = [task EXCEPT ![t].k = @ + 1, ![t].pc = "insert"]
       ELSE /\ ThreadRaises(t, "KeyError")
            /\ UNCHANGED cache
    /\ UNCHANGED lock

\* the caller takes the list, or the exception
ThreadDone(t) ==
    /\ task[t].pc \in {"returned", "raised"}
    /\ task' = [task EXCEPT ![t] = IdleThread]
    /\ UNCHANGED <<cache, lock>>

InitCache ==
    /\ CacheThreadsInit
    /\ EmbInit
    /\ DbFrozen /\ WebFrozen /\ LlmFrozen /\ RagFrozen /\ BotFrozen

CacheRest == <<embPc, embCall, dbVars, webVars, llmVars, ragVars, botVars>>

NextCache ==
    \/ (\E t \in Tasks : ThreadEmbed(t))  /\ UNCHANGED CacheRest
    \/ (\E t \in Tasks : ThreadTest(t))   /\ UNCHANGED CacheRest
    \/ (\E t \in Tasks : ThreadRead(t))   /\ UNCHANGED CacheRest
    \/ (\E t \in Tasks : ThreadCall(t))   /\ UNCHANGED CacheRest
    \/ (\E t \in Tasks : ThreadInsert(t)) /\ UNCHANGED CacheRest
    \/ (\E t \in Tasks : ThreadCheck(t))  /\ UNCHANGED CacheRest
    \/ (\E t \in Tasks : ThreadIter(t))   /\ UNCHANGED CacheRest
    \/ (\E t \in Tasks : ThreadNext(t))   /\ UNCHANGED CacheRest
    \/ (\E t \in Tasks : ThreadDel(t))    /\ UNCHANGED CacheRest
    \/ (\E t \in Tasks : ThreadDone(t))   /\ UNCHANGED CacheRest

SpecCache == InitCache /\ [][NextCache]_vars

----------------------------------------------------------------------------
(* WebSearchService *)

MaxRows          == 2   \* most result blocks of a page
WebSearchResults == 1   \* self.max_results (config WEB_SEARCH_RESULTS)

MinSnippetLen == 20     \* len(snippet) > 20

\* the link a backend's page gives: "d", "b", "g"
UrlOf(backend) ==
    CASE backend = "ddg"  -> <<100>>
      [] backend = "bing" -> <<98>>
      [] OTHER            -> <<103>>

\* A result block of a page (a table row for DuckDuckGo Lite, li.b_algo for
\* Bing, div.g for Google): link, whether it has its link (and heading)
\* element; title and url, the text and href of the link; snippet, the text
\* of the snippet element.
Blocks(backend) ==
    { [link |-> TRUE,  title |-> <<32, 116, 32>>, url |-> UrlOf(backend),
       snippet |-> <<32>> \o Rep(115, 21)],
      [link |-> TRUE,  title |-> <<116>>, url |-> UrlOf(backend),
       snippet |-> Rep(115, 20) \o <<10>>],
      [link |-> TRUE,  title |-> <<32>>, url |-> UrlOf(backend),
       snippet |-> Rep(115, 21)],
      [link |-> FALSE, title |-> <<>>, url |-> <<>>, snippet |-> Rep(115, 21)] }

\* What the HTTP request of a backend gives: a page with its status, or an
\* exception (time-out, connection error)
Responses(backend) ==
    {[kind |-> "page", status |-> status, blocks |-> blocks] :
        status \in {200, 429}, blocks \in SeqsUpTo(Blocks(backend), MaxRows)}
    \cup {[kind |-> "exception", status |-> 0, blocks |-> <<>>]}

\* {'title': ..., 'url': ..., 'snippet': ...}
Result(title, url, snippet) == [title |-> title, url |-> url, snippet |-> snippet]

\* lines 84-103: the rows with a link, a title, a url and a snippet longer than 20
RECURSIVE DdgRows(_)
DdgRows(blocks) ==
    IF blocks = <<>> THEN <<>>
    ELSE LET b       == Head(blocks)
             title   == Strip(b.title)
             snippet == Strip(b.snippet)
         IN  (IF b.link /\ title # <<>> /\ b.url # <<>> /\ Len(snippet) > MinSnippetLen
              THEN <<Result(title, b.url, snippet)>> ELSE <<>>)
             \o DdgRows(Tail(blocks))

\* _search_ddg_lite: nothing unless the status is 200; results[:self.max_results]
_search_ddg_lite(resp) ==
    IF resp.kind = "exception" THEN <<>>
    ELSE IF resp.status # 200 THEN <<>>
    ELSE Take(DdgRows(resp.blocks), WebSearchResults)

\* lines 121-135: the items with a link and a snippet element
RECURSIVE BingItems(_)
BingItems(blocks) ==
    IF blocks = <<>> THEN <<>>
    ELSE LET b == Head(blocks)
         IN  (IF b.link THEN <<Result(Strip(b.title), b.url, Strip(b.snippet))>>
              ELSE <<>>)
             \o BingItems(Tail(blocks))

\* _search_bing: the first self.max_results items of the page, whatever its status
_search_bing(resp) ==
    IF resp.kind = "exception" THEN <<>>
    ELSE BingItems(Take(resp.blocks, WebSearchResults))

\* lines 153-170: the blocks with a link, a heading and a snippet longer than 20
RECURSIVE GoogleBlocks(_)
GoogleBlocks(blocks) ==
    IF blocks = <<>> THEN <<>>
    ELSE LET b       == Head(blocks)
             snippet == Strip(b.snippet)
         IN  (IF b.link /\ snippet # <<>> /\ Len(snippet) > MinSnippetLen
              THEN <<Result(Strip(b.title), b.url, snippet)>> ELSE <<>>)
             \o GoogleBlocks(Tail(blocks))

\* _search_google: the first self.max_results blocks of the page, whatever its status
_search_google(resp) ==
    IF resp.kind = "exception" THEN <<>>
    ELSE GoogleBlocks(Take(resp.blocks, WebSearchResults))

\* num_results arguments of search
NumResults == {0, 1, 5}

\* if results: the search is over
FoundNever(results) == FALSE

Found(results) == results # <<>>

\* search(query, num_results) is called: it is at the DuckDuckGo Lite request
WebSearch ==
    /\ webPc = "idle"
    /\ \E num_results \in NumResults :
         webCall' = [op |-> "search", num_results |-> num_results,
                     contacted |-> <<>>, responses |-> <<>>, answers |-> <<>>,
                     ret |-> None]
    /\ webPc' = "ddg"

\* after the answer results of a backend to the response resp: return
\* results[:num_results], or go on to next ("end": return [])
WebStep(backend, resp, results, next) ==
    LET seen == [webCall EXCEPT !.contacted = @ \o <<backend>>,
                                !.responses = @ \o <<resp>>,
                                !.answers = @ \o <<results>>]
    IN  IF Found(results)
        THEN /\ webCall' = [seen EXCEPT !.ret = Take(results, webCall.num_results)]
             /\ webPc' = "returned"
        ELSE IF next = "end"
        THEN /\ webCall' = [seen EXCEPT !.ret = <<>>]
             /\ webPc' = "returned"
        ELSE /\ webCall' = seen
             /\ webPc' = next

\* lines 43-47
DdgStep ==
    /\ webPc = "ddg"
    /\ \E resp \in Responses("ddg") : WebStep("ddg", resp, _search_ddg_lite(resp), "bing")

\* lines 49-54
BingStep ==
    /\ webPc = "bing"
    /\ \E resp \in Responses("bing") : WebStep("bing", resp, _search_bing(resp), "google")

\* lines 56-64
GoogleStep ==
    /\ webPc = "google"
    /\ \E resp \in Responses("google") : WebStep("google", resp, _search_google(resp), "end")

\* the caller takes the list
WebReturn ==
    /\ webPc = "returned"
    /\ webPc' = "idle"
    /\ webCall' = NoCall

InitWeb == WebFrozen /\ EmbInit /\ DbFrozen /\ LockFrozen /\ LlmFrozen /\ RagFrozen /\ BotFrozen

NextWeb ==
    \/ WebSearch  /\ UNCHANGED <<embVars, dbVars, lockVars, llmVars, ragVars, botVars>>
    \/ DdgStep    /\ UNCHANGED <<embVars, dbVars, lockVars, llmVars, ragVars, botVars>>
    \/ BingStep   /\ UNCHANGED <<embVars, dbVars, lockVars, llmVars, ragVars, botVars>>
    \/ GoogleStep /\ UNCHANGED <<embVars, dbVars, lockVars, llmVars, ragVars, botVars>>
    \/ WebReturn  /\ UNCHANGED <<embVars, dbVars, lockVars, llmVars, ragVars, botVars>>

SpecWeb == InitWeb /\ [][NextWeb]_vars

----------------------------------------------------------------------------
(* LLMService *)

Newline == 10

\* re.sub(r"\n\n\n+", "\n\n", text): run counts the newlines just before s
RECURSIVE CollapseFrom(_, _)
CollapseFrom(s, run) ==
    IF s = <<>> THEN <<>>
    ELSE IF Head(s) = Newline
         THEN (IF run >= 2 THEN <<>> ELSE <<Newline>>) \o CollapseFrom(Tail(s), run + 1)
         ELSE <<Head(s)>> \o CollapseFrom(Tail(s), 0)

\* the places from position from on where sep stands in s
Matches(s, sep, from) ==
    {i \in from..(Len(s) - Len(sep) + 1) : SubSeq(s, i, i + Len(sep) - 1) = sep}

First(S) == CHOOSE i \in S : \A j \in S : i <= j

\* str.split(sep): the parts of s from position from on, cut at each sep found
\* from left to right
RECURSIVE SplitFrom(_, _, _)
SplitFrom(s, sep, from) ==
    IF Matches(s, sep, from) = {} THEN <<SubSeq(s, from, Len(s))>>
    ELSE <<SubSeq(s, from, First(Matches(s, sep, from)) - 1)>>
         \o SplitFrom(s, sep, First(Matches(s, sep, from)) + Len(sep))

Split(s, sep) == SplitFrom(s, sep, 1)

\* sep.join(parts)
RECURSIVE JoinWith(_, _)
JoinWith(parts, sep) ==
    IF parts = <<>> THEN <<>>
    ELSE IF Len(parts) = 1 THEN parts[1]
    ELSE parts[1] \o sep \o JoinWith(Tail(parts), sep)

RStripLines(lines) == [i \in 1..Len(lines) |-> RStrip(lines[i])]

_clean_answer(text) ==
    IF text = <<>> THEN <<>>
    ELSE Strip(JoinWith(RStripLines(Split(CollapseFrom(text, 0), <<Newline>>)),
                        <<Newline>>))

\* str.lower() on the Latin and the Russian capital letters
LowerChar(c) ==
    IF (c >= 65 /\ c <= 90) \/ (c >= 1040 /\ c <= 1071) THEN c + 32 ELSE c

Lower(s) == [i \in 1..Len(s) |-> LowerChar(s[i])]

\* a in b
IsSubstring(a, b) ==
    \E i \in 0..(Len(b) - Len(a)) : SubSeq(b, i + 1, i + Len(a)) = a

EndsWith(s, e) ==
    Len(s) >= Len(e) /\ SubSeq(s, Len(s) - Len(e) + 1, Len(s)) = e

\* s[-n:]
LastChars(s, n) == IF Len(s) <= n THEN s ELSE SubSeq(s, Len(s) - n + 1, Len(s))

TailLen               == 40    \* text.strip()[-40:]
CharsPerTokenTenths   == 35    \* len(text) / 3.5
IncompleteThreshold   == 85    \* INCOMPLETE_THRESHOLD, in hundredths
MaxContinuationRetries == 2    \* MAX_CONTINUATION_RETRIES
MinContinuationLen    == 50    \* len(continuation) < 50
ShortCeiling          == 120   \* min(max_tokens, 120)

\* . ! ? ``` ` " >> ) ] }
ProperEndings ==
    {<<46>>, <<33>>, <<63>>, <<96, 96, 96>>, <<96>>, <<34>>, <<187>>, <<41>>, <<93>>,
     <<125>>}

\* the threshold itself counts as over
OverThresholdInclusive(text, max_tokens) ==
    /\ max_tokens > 0
    /\ Len(text) * 1000 >= IncompleteThreshold * CharsPerTokenTenths * max_tokens

\* ratio = len(text) / 3.5 / max_tokens; ratio > 0.85, without fractions
OverThreshold(text, max_tokens) ==
    /\ max_tokens > 0
    /\ Len(text) * 1000 > IncompleteThreshold * CharsPerTokenTenths * max_tokens

\* the length alone decides
LooksIncompleteByLength(text, max_tokens) ==
    text # <<>> /\ OverThreshold(text, max_tokens)

_looks_incomplete(text, max_tokens) ==
    /\ text # <<>>
    /\ ~ \E e \in ProperEndings : EndsWith(LastChars(Strip(text), TailLen), e)
    /\ OverThreshold(text, max_tokens)

\* What the Ollama server does with one request: the request times out, the
\* connection fails, the answer is an HTTP error or no JSON object, or the
\* answer is a JSON object whose "response" is a text or missing (None).
Failures == {"timeout", "connection", "error"}

Fail(kind) == [kind |-> kind, response |-> None]

Says(text) == [kind |-> "json", response |-> text]

Letters(c, n) == Rep(c, n)

\* "a \n\n\nb." is cleaned to "a\n\nb."; twelve letters are cut off under a
\* budget of 4 tokens and nine under 3; fifty letters are a continuation
GeneratedTexts ==
    { None,
      <<32, 32>>,
      <<32, 97, 32, 10, 10, 10, 98, 46, 10>>,
      Letters(97, 12),
      Letters(98, 50),
      Letters(98, 49) \o <<46>>,
      Letters(66, 50),
      Letters(99, 49),
      Letters(100, 50) }

\* the answers to a continuation request: a time-out or a text of about fifty
\* letters
ContinuationTexts ==
    { Letters(98, 50), Letters(98, 49) \o <<46>>, Letters(66, 50), Letters(99, 49),
      Letters(100, 50) }

ContinuationOutcomes == {Fail("timeout")} \cup {Says(t) : t \in ContinuationTexts}

LlmOutcomes == {Fail(k) : k \in Failures} \cup {Says(t) : t \in GeneratedTexts}

\* the answer an erroring request is turned into, if it were reported
llm_call_ollama_reporting(outcome) ==
    IF outcome.kind \in Failures THEN <<101>>
    ELSE IF outcome.response = None THEN <<>>
    ELSE Strip(outcome.response)

\* LLMService._call_ollama: the stripped text, "" on every failure
llm_call_ollama(outcome) ==
    IF outcome.kind \in Failures THEN <<>>
    ELSE IF outcome.response = None THEN <<>>
    ELSE Strip(outcome.response)

\* the mode is kept as given
ResolveModeKept(cfgs, mode) == mode

\* if mode not in MODE_CONFIGS: mode = "default"
ResolveMode(cfgs, mode) == IF mode \in DOMAIN cfgs THEN mode ELSE "default"

LlmNumPredict  == 600   \* cfg.get("num_predict", 600)
LlmTemperature == 3     \* LLM_TEMPERATURE (0.3), in tenths
LlmTopK        == 3     \* LLM_TOP_K

\* cfg = MODE_CONFIGS.get(mode, {}) and the three cfg.get(..., default)
ModeSettings(cfgs, mode) ==
    IF mode \in DOMAIN cfgs THEN cfgs[mode]
    ELSE ModeConfig(LlmNumPredict, LlmTemperature, LlmTopK, 0)

\* the budget is passed on as configured
MaxTokensUncapped(mode, num_predict) == num_predict

\* max_tokens = int(cfg.get("num_predict", 600)); short: min(max_tokens, 120)
MaxTokens(mode, num_predict) ==
    IF mode = "short" THEN Min(num_predict, ShortCeiling) ELSE num_predict

\* the payload of one request to /api/generate
Request(kind, text, max_tokens, cfg) ==
    [kind |-> kind, text |-> text, num_predict |-> max_tokens,
     temperature |-> cfg.temperature, top_k |-> cfg.top_k]

\* what generate returns, with the requests it made, the number of continuations
\* it asked for and the running answer after each request
Generated(answer, retries, requests, trail) ==
    [ret |-> answer, requests |-> requests, retries |-> retries, trail |-> trail,
     raised |-> FALSE]

\* every mode is continued
EnableContinuationAlways(mode) == TRUE

\* only "detailed" is continued
EnableContinuationDetailedOnly(mode) == mode = "detailed"

\* enable_continuation = mode in ["default", "detailed"]
EnableContinuation(mode) == mode \in {"default", "detailed"}

\* one more continuation than the cap
RetriesLeftOneMore(retries) == retries <= MaxContinuationRetries

\* retries < self.MAX_CONTINUATION_RETRIES
RetriesLeft(retries) == retries < MaxContinuationRetries

\* the duplicate guard compares the texts as they are
RejectedCaseSensitive(continuation, answer) ==
    IsSubstring(continuation, answer) \/ Len(continuation) < MinContinuationLen

\* continuation.lower() in answer.lower() or len(continuation) < 50
Rejected(continuation, answer) ==
    IsSubstring(Lower(continuation), Lower(answer))
        \/ Len(continuation) < MinContinuationLen

\* the budget is halved again at each continuation
ContinuationBudgetHalving(max_tokens, retries) ==
    IF retries = 1 THEN max_tokens \div 2 ELSE (max_tokens \div 2) \div 2

\* max_tokens=max_tokens // 2, at the continuation number retries
ContinuationBudget(max_tokens, retries) == max_tokens \div 2

RECURSIVE GenerateLoop(_, _, _, _, _, _, _, _)

\* the cleaned continuation is appended unless it repeats the answer or is short
ContinuationCleaned(mode, max_tokens, cfg, answer, retries, outs, requests, trail, continuation) ==
    IF Rejected(continuation, answer)
    THEN Generated(answer, retries, requests, Append(trail, answer))
    ELSE GenerateLoop(mode, max_tokens, cfg,
                      answer \o <<Newline, Newline>> \o continuation,
                      retries, outs, requests,
                      Append(trail, answer \o <<Newline, Newline>> \o continuation))

\* the continuation request has been answered
ContinuationAnswered(mode, max_tokens, cfg, answer, retries, outs, requests, trail, continuation) ==
    IF continuation = <<>>
    THEN Generated(answer, retries, requests, Append(trail, answer))
    ELSE ContinuationCleaned(mode, max_tokens, cfg, answer, retries, outs, requests,
                             trail, _clean_answer(continuation))

\* the while loop of generate; retries continuations have been asked for
GenerateLoop(mode, max_tokens, cfg, answer, retries, outs, requests, trail) ==
    IF /\ EnableContinuation(mode)
       /\ _looks_incomplete(answer, max_tokens)
       /\ RetriesLeft(retries)
    THEN ContinuationAnswered(mode, max_tokens, cfg, answer, retries + 1, outs,
             Append(requests,
                    Request("continuation", answer,
                            ContinuationBudget(max_tokens, retries + 1), cfg)),
             trail,
             llm_call_ollama(outs[retries + 2]))
    ELSE Generated(answer, retries, requests, trail)

\* the first request has been answered
GenerateAnswered(mode, max_tokens, cfg, outs, requests, answer) ==
    IF answer = <<>> THEN Generated(<<>>, 0, requests, <<>>)
    ELSE GenerateLoop(mode, max_tokens, cfg, _clean_answer(answer), 0, outs, requests,
                      <<_clean_answer(answer)>>)

GenerateAsked(mode, max_tokens, cfg, prompt, outs) ==
    GenerateAnswered(mode, max_tokens, cfg, outs,
                     <<Request("first", prompt, max_tokens, cfg)>>,
                     llm_call_ollama(outs[1]))

GenerateResolved(cfgs, mode, prompt, outs) ==
    GenerateAsked(mode, MaxTokens(mode, ModeSettings(cfgs, mode).num_predict),
                  ModeSettings(cfgs, mode), prompt, outs)

\* LLMService.generate(prompt, context, mode); outs[i] is what the server does
\* with the i-th request
generate(cfgs, prompt, mode, outs) ==
    GenerateResolved(cfgs, ResolveMode(cfgs, mode), prompt, outs)

MaxCalls == 1 + MaxContinuationRetries

\* num_predict settings of the three modes (MODE_SHORT / MODE_DEFAULT /
\* MODE_DETAILED overrides of the environment)
ShortBudgets    == {3, 300}
DefaultBudgets  == {4, 1000}
DetailedBudgets == {4, 5, 2000}

WithBudget(cfg, num_predict) == [cfg EXCEPT !.num_predict = num_predict]

LlmConfigs ==
    { [mode \in Modes |->
          CASE mode = "short"    -> WithBudget(DefaultModes[mode], s)
            [] mode = "default"  -> WithBudget(DefaultModes[mode], d)
            [] mode = "detailed" -> WithBudget(DefaultModes[mode], x)] :
      s \in ShortBudgets, d \in DefaultBudgets, x \in DetailedBudgets }

\* the mode argument: a configured mode or another string
ModeArgs == Modes \cup {"bogus"}

Prompts == {<<113>>}

LlmInit ==
    /\ modeCfg \in LlmConfigs
    /\ llmPc = "idle"
    /\ llmCall = NoCall

GenerateReturns(prompt, mode, outs, r) ==
    /\ llmCall' = [op |-> "generate", prompt |-> prompt, mode |-> mode,
                   requests |-> r.requests,
                   outcomes |-> Take(outs, Len(r.requests)),
                   retries |-> r.retries, trail |-> r.trail,
                   ret |-> r.ret, raised |-> r.raised]
    /\ llmPc' = "returned"
    /\ UNCHANGED modeCfg

Generate ==
    /\ llmPc = "idle"
    /\ \E prompt \in Prompts, mode \in ModeArgs, first \in LlmOutcomes,
          rest \in [1..MaxCalls -> ContinuationOutcomes] :
          GenerateReturns(prompt, mode, <<first>> \o rest,
                          generate(modeCfg, prompt, mode, <<first>> \o rest))

\* the caller takes the answer
LlmReturn ==
    /\ llmPc = "returned"
    /\ llmPc' = "idle"
    /\ llmCall' = NoCall
    /\ UNCHANGED modeCfg

InitLlm == LlmInit /\ EmbInit /\ DbFrozen /\ LockFrozen /\ WebFrozen /\ RagFrozen /\ BotFrozen

NextLlm ==
    \/ Generate  /\ UNCHANGED <<embVars, dbVars, lockVars, webVars, ragVars, botVars>>
    \/ LlmReturn /\ UNCHANGED <<embVars, dbVars, lockVars, webVars, ragVars, botVars>>

SpecLlm == InitLlm /\ [][NextLlm]_vars

\* The two text functions of LLMService called on their own.
MaxTextLen == 4         \* longest middle part of a text given to _clean_answer

\* texts that end in a letter, in each terminal marker, or in a marker followed
\* by a letter, with and without white space behind
TextEndings == {<<>>, <<46, 97>>} \cup ProperEndings

TextTrailers == {<<>>, <<32>>, <<Newline>>}

BodyLengths == {0, 9, 10, 11, 12, 117, 118, 119, 120}

JudgedTexts ==
    {Letters(97, n) \o e \o t : n \in BodyLengths, e \in TextEndings, t \in TextTrailers}

TokenBudgets == {0, 1, 4, 40}

\* texts of letters, blanks and newlines, alone and between two letters
CleanedMiddles == SeqsUpTo({32, Newline, 97}, MaxTextLen)

CleanedTexts == CleanedMiddles \cup {<<97>> \o mid \o <<98>> : mid \in CleanedMiddles}

LooksIncompleteCall ==
    /\ llmPc = "idle"
    /\ \E text \in JudgedTexts, max_tokens \in TokenBudgets :
          llmCall' = [op |-> "_looks_incomplete", text |-> text,
                      max_tokens |-> max_tokens,
                      ret |-> _looks_incomplete(text, max_tokens)]
    /\ llmPc' = "returned"
    /\ UNCHANGED modeCfg

CleanAnswerCall ==
    /\ llmPc = "idle"
    /\ \E text \in CleanedTexts :
          llmCall' = [op |-> "_clean_answer", text |-> text,
                      ret |-> _clean_answer(text)]
    /\ llmPc' = "returned"
    /\ UNCHANGED modeCfg

InitText == LlmFrozen /\ EmbInit /\ DbFrozen /\ LockFrozen /\ WebFrozen /\ RagFrozen /\ BotFrozen

NextText ==
    \/ LooksIncompleteCall /\ UNCHANGED <<embVars, dbVars, lockVars, webVars, ragVars, botVars>>
    \/ CleanAnswerCall     /\ UNCHANGED <<embVars, dbVars, lockVars, webVars, ragVars, botVars>>
    \/ LlmReturn           /\ UNCHANGED <<embVars, dbVars, lockVars, webVars, ragVars, botVars>>

SpecText == InitText /\ [][NextText]_vars

----------------------------------------------------------------------------
(* config.py at import: MODE_CONFIGS from MODE_SHORT, MODE_DEFAULT and
   MODE_DETAILED of the environment *)

\* {"num_predict": 50}
EnvSmaller == <<123, 34, 110, 117, 109, 95, 112, 114, 101, 100, 105, 99, 116, 34, 58, 32, 53, 48, 125>>

\* '{"top_k": 1, "web_search": false}'
EnvQuoted == <<39, 123, 34, 116, 111, 112, 95, 107, 34, 58, 32, 49, 44, 32, 34, 119, 101, 98, 95, 115, 101, 97, 114, 99, 104, 34, 58, 32, 102, 97, 108, 115, 101, 125, 39>>

\* {"num_predict": -1}
EnvNegative == <<123, 34, 110, 117, 109, 95, 112, 114, 101, 100, 105, 99, 116, 34, 58, 32, 45, 49, 125>>

\* {num_predict: 5}
EnvMalformed == <<123, 110, 117, 109, 95, 112, 114, 101, 100, 105, 99, 116, 58, 32, 53, 125>>

\* [1]
EnvArray == <<91, 49, 93>>

\* {}
EnvEmptyObject == <<123, 125>>

\* the values of one MODE_ variable: not set (None), empty, or one of the texts
EnvValues ==
    {None, <<>>, EnvSmaller, EnvQuoted, EnvNegative, EnvMalformed, EnvArray,
     EnvEmptyObject}

\* the keys of a mode's settings, as they are written in JSON
KeyTexts ==
    [num_predict |-> <<110, 117, 109, 95, 112, 114, 101, 100, 105, 99, 116>>,
     temperature |-> <<116, 101, 109, 112, 101, 114, 97, 116, 117, 114, 101>>,
     top_k |-> <<116, 111, 112, 95, 107>>,
     db_search |-> <<100, 98, 95, 115, 101, 97, 114, 99, 104>>,
     web_search |-> <<119, 101, 98, 95, 115, 101, 97, 114, 99, 104>>,
     web_search_results |-> <<119, 101, 98, 95, 115, 101, 97, 114, 99, 104, 95, 114, 101, 115, 117, 108, 116, 115>>]

\* str.strip("'\""): quotes are taken from both ends
IsQuote(c) == c \in {39, 34}

RECURSIVE LStripQuotes(_)
LStripQuotes(s) == IF s # <<>> /\ IsQuote(Head(s)) THEN LStripQuotes(Tail(s)) ELSE s

RECURSIVE RStripQuotes(_)
RStripQuotes(s) ==
    IF s # <<>> /\ IsQuote(s[Len(s)]) THEN RStripQuotes(SubSeq(s, 1, Len(s) - 1)) ELSE s

StripQuotes(s) == RStripQuotes(LStripQuotes(s))

IsDigits(s) == s # <<>> /\ \A i \in 1..Len(s) : s[i] \in 48..57

RECURSIVE DigitsValue(_)
DigitsValue(s) ==
    IF s = <<>> THEN 0 ELSE 10 * DigitsValue(SubSeq(s, 1, Len(s) - 1)) + (s[Len(s)] - 48)

\* a JSON integer, with or without sign
IsIntText(s) == IsDigits(s) \/ (s # <<>> /\ s[1] = 45 /\ IsDigits(Tail(s)))

IntValue(s) == IF s[1] = 45 THEN 0 - DigitsValue(Tail(s)) ELSE DigitsValue(s)

\* true, false
JsonTrue  == <<116, 114, 117, 101>>
JsonFalse == <<102, 97, 108, 115, 101>>

IsValueText(s) == IsIntText(s) \/ s \in {JsonTrue, JsonFalse}

ValueOf(s) == IF s = JsonTrue THEN TRUE ELSE IF s = JsonFalse THEN FALSE ELSE IntValue(s)

\* "key": the text between the quotation marks names one of the settings
IsKeyText(s) == \E k \in DOMAIN KeyTexts : s = <<34>> \o KeyTexts[k] \o <<34>>

KeyOf(s) == CHOOSE k \in DOMAIN KeyTexts : s = <<34>> \o KeyTexts[k] \o <<34>>

\* one member of an object, "key": value
IsMember(parts) ==
    Len(parts) = 2 /\ IsKeyText(Strip(parts[1])) /\ IsValueText(Strip(parts[2]))

MembersOf(inner) == [i \in 1..Len(Split(inner, <<44>>)) |-> Split(Split(inner, <<44>>)[i], <<58>>)]

ObjectOf(members) ==
    [k \in {KeyOf(Strip(members[i][1])) : i \in 1..Len(members)} |->
        ValueOf(Strip(members[CHOOSE i \in 1..Len(members) :
                                 /\ KeyOf(Strip(members[i][1])) = k
                                 /\ \A j \in (i + 1)..Len(members) :
                                        KeyOf(Strip(members[j][1])) # k][2]))]

Decoded(value) == [kind |-> "value", value |-> value]

JSONDecodeError == [kind |-> "JSONDecodeError", value |-> <<>>]

\* the object between the braces: its members, the last one winning for a key
\* given twice
JsonObject(inner) ==
    IF Strip(inner) = <<>> THEN Decoded(<<>>)
    ELSE IF \A i \in 1..Len(MembersOf(inner)) : IsMember(MembersOf(inner)[i])
    THEN Decoded(ObjectOf(MembersOf(inner)))
    ELSE JSONDecodeError

\* json.loads on the JSON of the model: an object whose members are integers
\* and booleans under the six keys, an integer, a boolean, or an array; any
\* other text is a JSONDecodeError.  A value that is not an object is decoded
\* too (kind "other").
JsonText(t) ==
    IF Len(t) >= 2 /\ t[1] = 123 /\ t[Len(t)] = 125
    THEN JsonObject(SubSeq(t, 2, Len(t) - 1))
    ELSE IF IsValueText(t) \/ (Len(t) >= 2 /\ t[1] = 91 /\ t[Len(t)] = 93)
    THEN [kind |-> "other", value |-> <<>>]
    ELSE JSONDecodeError

json_loads(text) == JsonText(Strip(text))

Parsed(value) == [kind |-> "value", value |-> value]

\* {**default, **parsed}
MergedConfig(default, parsed) == parsed @@ default

\* _parse_mode_config, after json.loads: a JSONDecodeError gives the default,
\* an object is merged over the default, any other value makes the merge
\* raise TypeError, which nothing catches
ParseDecoded(default, decoded) ==
    IF decoded.kind = "JSONDecodeError" THEN Parsed(default)
    ELSE IF decoded.kind = "other" THEN [kind |-> "TypeError", value |-> default]
    ELSE Parsed(MergedConfig(default, decoded.value))

\* _parse_mode_config(env_var, default), value being os.getenv(env_var)
_parse_mode_config(value, default) ==
    IF value = None \/ value = <<>> THEN Parsed(default)
    ELSE ParseDecoded(default, json_loads(StripQuotes(Strip(value))))

\* the environment of the process
Environments == [Modes -> EnvValues]

ConfigInit ==
    /\ modeCfg = <<>>
    /\ llmPc = "idle"
    /\ llmCall \in {[op |-> "import config", env |-> env] : env \in Environments}

\* _DYNAMIC_MODES and MODE_CONFIGS (lines 89-121); the keys added after the
\* spread (name, description, target_length, min_length, max_length) are
\* literals and are left out
ConfigLoaded(dynamic) ==
    IF \E mode \in Modes : dynamic[mode].kind = "TypeError"
    THEN /\ llmPc' = "aborted"
         /\ UNCHANGED modeCfg
    ELSE /\ llmPc' = "returned"
         /\ modeCfg' = [mode \in Modes |-> dynamic[mode].value]

\* import config
ImportConfig ==
    /\ llmPc = "idle"
    /\ llmCall.op = "import config"
    /\ ConfigLoaded([mode \in Modes |->
                        _parse_mode_config(llmCall.env[mode], DefaultModes[mode])])
    /\ UNCHANGED llmCall

InitConfig == ConfigInit /\ EmbInit /\ DbFrozen /\ LockFrozen /\ WebFrozen /\ RagFrozen /\ BotFrozen

NextConfig ==
    ImportConfig /\ UNCHANGED <<embVars, dbVars, lockVars, webVars, ragVars, botVars>>

SpecConfig == InitConfig /\ [][NextConfig]_vars


----------------------------------------------------------------------------
(* RAGPipeline *)

MaxWebResults == 2      \* most results a web search gives to the pipeline

SufficientLen == 1200   \* if db_content_len > 1200
MinPartLen    == 20     \* len(part.strip()) > 20
DbTopK        == 10     \* self.db.search(query, top_k=10)

\* "Пустой запрос. Напиши что-нибудь!"
EmptyQueryMessage ==
    <<1055, 1091, 1089, 1090, 1086, 1081, 32, 1079, 1072, 1087, 1088, 1086, 1089, 46,
      32, 1053, 1072, 1087, 1080, 1096, 1080, 32, 1095, 1090, 1086, 45, 1085, 1080,
      1073, 1091, 1076, 1100, 33>>

\* "❌ Я не нашел информации ни в базе знаний, ни в интернете. Попробуй
\* переформулировать запрос."
NoInfoMessage ==
    <<10060, 32, 1071, 32, 1085, 1077, 32, 1085, 1072, 1096, 1077, 1083, 32, 1080,
      1085, 1092, 1086, 1088, 1084, 1072, 1094, 1080, 1080, 32, 1085, 1080, 32, 1074,
      32, 1073, 1072, 1079, 1077, 32, 1079, 1085, 1072, 1085, 1080, 1081, 44, 32, 1085,
      1080, 32, 1074, 32, 1080, 1085, 1090, 1077, 1088, 1085, 1077, 1090, 1077, 46, 32,
      1055, 1086, 1087, 1088, 1086, 1073, 1091, 1081, 32, 1087, 1077, 1088, 1077, 1092,
      1086, 1088, 1084, 1091, 1083, 1080, 1088, 1086, 1074, 1072, 1090, 1100, 32, 1079,
      1072, 1087, 1088, 1086, 1089, 46>>

\* "\n\n=== ДОПОЛНИТЕЛЬНО ИЗ ИНТЕРНЕТА ===\n\n"
WebSeparator ==
    <<10, 10, 61, 61, 61, 32, 1044, 1054, 1055, 1054, 1051, 1053, 1048, 1058, 1045,
      1051, 1068, 1053, 1054, 32, 1048, 1047, 32, 1048, 1053, 1058, 1045, 1056, 1053,
      1045, 1058, 1040, 32, 61, 61, 61, 10, 10>>

\* "Источник: "
SourcePrefix == <<1048, 1089, 1090, 1086, 1095, 1085, 1080, 1082, 58, 32>>

\* "❌ Ошибка при генерации ответа: "
GenErrorPrefix ==
    <<10060, 32, 1054, 1096, 1080, 1073, 1082, 1072, 32, 1087, 1088, 1080, 32, 1075,
      1077, 1085, 1077, 1088, 1072, 1094, 1080, 1080, 32, 1086, 1090, 1074, 1077, 1090,
      1072, 58, 32>>

\* what an awaited collaborator does: it returns a value or raises
Gives(value) == [kind |-> "value", value |-> value]

Raises(message) == [kind |-> "raise", value |-> message]

\* only the empty query is refused
RagBlankUnstripped(query) == query = <<>>

\* not query or not query.strip()
RagBlank(query) == query = <<>> \/ Strip(query) = <<>>

\* mode = user_mode or 'default'; no mode given is ""
ModeOf(user_mode) == IF user_mode = "" THEN "default" ELSE user_mode

\* mode_config = MODE_CONFIGS.get(mode, MODE_CONFIGS['default'])
ModeConfigOf(cfgs, mode) == IF mode \in DOMAIN cfgs THEN cfgs[mode] ELSE cfgs["default"]

\* the store context is never sufficient
SufficientNever(db_content_len) == FALSE

\* the store context is sufficient from the threshold on
SufficientAtThreshold(db_content_len) == db_content_len >= SufficientLen

\* if db_content_len > 1200
Sufficient(db_content_len) == db_content_len > SufficientLen

\* the generator is asked whatever the context
InformedAlways(db_context) == TRUE

\* if not db_context: return the no-information message
Informed(db_context) == db_context # <<>>

\* RAGPipeline._search_database: the text of db.search, "" when it is blank or
\* the search raises
_search_database(outcome) ==
    IF outcome.kind = "raise" THEN <<>>
    ELSE IF outcome.value # <<>> /\ Len(Strip(outcome.value)) > 0 THEN outcome.value
    ELSE <<>>

\* str(n)
RECURSIVE Decimal(_)
Decimal(n) == IF n < 10 THEN <<48 + n>> ELSE Decimal(n \div 10) \o <<48 + (n % 10)>>

\* the lines of the i-th result inside the web context
WebEntryLines(i, title, snippet, url) ==
    (IF title # <<>> /\ snippet # <<>>
     THEN Decimal(i) \o <<46, 32>> \o title \o <<Newline>> \o snippet \o <<Newline>>
     ELSE <<>>)
    \o (IF url # <<>> THEN SourcePrefix \o url \o <<Newline>> ELSE <<>>)
    \o <<Newline>>

WebEntry(i, result) ==
    WebEntryLines(i, Strip(result.title), Strip(result.snippet), result.url)

\* RAGPipeline._search_web: the results as one text, "" when there are none or
\* the search raises
_search_web(outcome) ==
    IF outcome.kind = "raise" THEN <<>>
    ELSE IF outcome.value = <<>> THEN <<>>
    ELSE Strip(Concat([i \in 1..Len(outcome.value) |-> WebEntry(i, outcome.value[i])]))

\* part.strip() and len(part.strip()) > 20
PartKept(part) == Strip(part) # <<>> /\ Len(Strip(part)) > MinPartLen

DocumentsAt(parts, kept) == [k \in 1..Len(kept) |-> [text |-> Strip(parts[kept[k]])]]

DocumentsOf(parts) ==
    DocumentsAt(parts, IndicesFrom(1, Len(parts), [i \in 1..Len(parts) |-> PartKept(parts[i])]))

\* the documents _add_web_results_to_db makes of the web context
WebDocuments(web_context) == DocumentsOf(Split(web_context, <<Newline, Newline>>))

\* a mode that is not known gets the default template
BuildPromptDefaulting(mode, query, context) ==
    [template |-> IF mode = "short" THEN "short"
                  ELSE IF mode = "detailed" THEN "detailed" ELSE "default",
     informed |-> context # <<>>, query |-> query, context |-> context]

\* _build_short_prompt / _build_default_prompt / _build_detailed_prompt
BuildPrompt(mode, query, context) ==
    [template |-> IF mode = "short" THEN "short"
                  ELSE IF mode = "default" THEN "default" ELSE "detailed",
     informed |-> context # <<>>, query |-> query, context |-> context]

\* the calls process makes to its collaborators
DbSearchCall(query) == [to |-> "db.search", query |-> query, top_k |-> DbTopK]

WebSearchCall(query, num_results) ==
    [to |-> "web.search", query |-> query, num_results |-> num_results]

AddDocumentsCall(documents) ==
    [to |-> "db.add_documents", documents |-> documents, source |-> WebAuto]

GenerateCall(prompt, context, mode) ==
    [to |-> "llm.generate", prompt |-> prompt, context |-> context, mode |-> mode]

\* db_context with the web results appended
Merged(db_context, web_results) ==
    IF db_context # <<>> THEN db_context \o WebSeparator \o web_results ELSE web_results

\* the queries: empty, white space, "q"
RagQueries == {<<>>, <<32, 10>>, <<113>>}

\* the user_mode argument; "" is no mode
UserModes == {"", "short", "default", "detailed", "bogus"}

\* what db.search gives: nothing, white space, a short text, a text of exactly
\* 1200 characters, one of 1201, or an exception
DbSearchOutcomes ==
    { Gives(<<>>), Gives(<<32, 10>>), Gives(Letters(100, 5)),
      Gives(Letters(100, SufficientLen)), Gives(Letters(100, SufficientLen + 1)),
      Raises(<<101>>) }

\* a result with title, snippet of 21 characters and url; one with a link only
WebResults ==
    { Result(<<116>>, <<117>>, Letters(115, 21)),
      Result(<<>>, <<117>>, <<>>) }

WebOutcomes == {Gives(rs) : rs \in SeqsUpTo(WebResults, MaxWebResults)} \cup {Raises(<<101>>)}

\* add_documents returns True or False; an exception is only logged
PersistOutcomes == {"True", "False", "raise"}

\* llm.generate gives a text or "", or raises
GenOutcomes == {Gives(<<>>), Gives(<<111, 107, 46>>), Raises(<<101>>)}

RagRequest(query, user_mode) ==
    [op |-> "process", query |-> query, user_mode |-> user_mode,
     mode |-> ModeOf(user_mode), db_results |-> None, db_context |-> <<>>,
     results |-> <<>>, web_results |-> None, documents |-> <<>>,
     stored |-> "none", calls |-> <<>>, ret |-> None,
     db_raised |-> FALSE, web_raised |-> FALSE]

\* lines 40-51: the blank query is answered at once, else the store is searched
Process ==
    /\ ragPc = "idle"
    /\ \E query \in RagQueries, user_mode \in UserModes :
          IF RagBlank(query)
          THEN /\ ragPc' = "returned"
               /\ ragCall' = [RagRequest(query, user_mode) EXCEPT !.ret = EmptyQueryMessage]
          ELSE /\ ragPc' = "db"
               /\ ragCall' = [RagRequest(query, user_mode) EXCEPT
                                 !.calls = <<DbSearchCall(query)>>]

\* lines 54-74: the store context decides whether the web is searched; raised:
\* db.search raised inside _search_database
DbGave(db_results, raised) ==
    IF Sufficient(Len(db_results))
    THEN /\ ragPc' = "context"
         /\ ragCall' = [ragCall EXCEPT !.db_results = db_results,
                                       !.db_context = db_results,
                                       !.db_raised = raised]
    ELSE /\ ragPc' = "web"
         /\ ragCall' = [ragCall EXCEPT
               !.db_results = db_results,
               !.db_context = db_results,
               !.db_raised = raised,
               !.calls = Append(@, WebSearchCall(ragCall.query,
                             ModeConfigOf(modeCfg, ragCall.mode).web_search_results))]

\* _search_database returns
DbSearched ==
    /\ ragPc = "db"
    /\ \E outcome \in DbSearchOutcomes :
          DbGave(_search_database(outcome), outcome.kind = "raise")

\* lines 76-84 and 156-161: the web results join the context and, if they hold
\* documents, add_documents is awaited
WebPersist(results, web_results, documents) ==
    /\ ragPc' = IF documents # <<>> THEN "persist" ELSE "context"
    /\ ragCall' = [ragCall EXCEPT
          !.results = results,
          !.web_results = web_results,
          !.db_context = Merged(@, web_results),
          !.documents = documents,
          !.calls = IF documents # <<>> THEN Append(@, AddDocumentsCall(documents))
                    ELSE @]

\* the request ends when the web gives nothing
WebGaveOrGivesUp(results, web_results, raised) ==
    IF web_results = <<>>
    THEN /\ ragPc' = "returned"
         /\ ragCall' = [ragCall EXCEPT !.results = results, !.web_results = <<>>,
                                       !.web_raised = raised, !.ret = NoInfoMessage]
    ELSE WebPersist(results, web_results, WebDocuments(web_results))

\* lines 74-87; raised: web_search.search raised inside _search_web
WebGave(results, web_results, raised) ==
    IF web_results = <<>>
    THEN /\ ragPc' = "context"
         /\ ragCall' = [ragCall EXCEPT !.results = results, !.web_results = <<>>,
                                       !.web_raised = raised]
    ELSE WebPersist(results, web_results, WebDocuments(web_results))

\* what web_search.search returned, nothing when it raised
ResultsOf(outcome) == IF outcome.kind = "raise" THEN <<>> ELSE outcome.value

\* _search_web returns
WebSearched ==
    /\ ragPc = "web"
    /\ \E outcome \in WebOutcomes :
          WebGave(ResultsOf(outcome), _search_web(outcome), outcome.kind = "raise")

\* add_documents returns or raises inside _add_web_results_to_db
Persisted ==
    /\ ragPc = "persist"
    /\ \E outcome \in PersistOutcomes :
          /\ ragPc' = "context"
          /\ ragCall' = [ragCall EXCEPT !.stored = outcome]

\* lines 90-99: without context the fixed message, else the generator is asked
RagAnswer ==
    /\ ragPc = "context"
    /\ IF Informed(ragCall.db_context)
       THEN /\ ragPc' = "gen"
            /\ ragCall' = [ragCall EXCEPT
                  !.calls = Append(@, GenerateCall(
                                BuildPrompt(ragCall.mode, ragCall.query, ragCall.db_context),
                                ragCall.db_context, ragCall.mode))]
       ELSE /\ ragPc' = "returned"
            /\ ragCall' = [ragCall EXCEPT !.ret = NoInfoMessage]

\* _generate_answer: the answer of llm.generate, or the error message
_generate_answer(outcome) ==
    IF outcome.kind = "raise" THEN GenErrorPrefix \o outcome.value ELSE outcome.value

\* llm.generate returns and process returns the response
RagAnswered ==
    /\ ragPc = "gen"
    /\ \E outcome \in GenOutcomes :
          /\ ragPc' = "returned"
          /\ ragCall' = [ragCall EXCEPT !.ret = _generate_answer(outcome)]

\* the caller takes the response
RagReturn ==
    /\ ragPc = "returned"
    /\ ragPc' = "idle"
    /\ ragCall' = NoCall

\* MODE_CONFIGS as loaded: the defaults, or "short" with db_search and
\* web_search switched off by MODE_SHORT
RagConfigs ==
    {[DefaultModes EXCEPT !["short"].db_search = d, !["short"].web_search = w] :
        d \in BOOLEAN, w \in BOOLEAN}

RagInit ==
    /\ RagFrozen /\ BotFrozen
    /\ modeCfg \in RagConfigs
    /\ llmPc = "idle"
    /\ llmCall = NoCall

InitRag == RagInit /\ EmbInit /\ DbFrozen /\ LockFrozen /\ WebFrozen

NextRag ==
    \/ Process     /\ UNCHANGED <<embVars, dbVars, lockVars, webVars, llmVars, botVars>>
    \/ DbSearched  /\ UNCHANGED <<embVars, dbVars, lockVars, webVars, llmVars, botVars>>
    \/ WebSearched /\ UNCHANGED <<embVars, dbVars, lockVars, webVars, llmVars, botVars>>
    \/ Persisted   /\ UNCHANGED <<embVars, dbVars, lockVars, webVars, llmVars, botVars>>
    \/ RagAnswer   /\ UNCHANGED <<embVars, dbVars, lockVars, webVars, llmVars, botVars>>
    \/ RagAnswered /\ UNCHANGED <<embVars, dbVars, lockVars, webVars, llmVars, botVars>>
    \/ RagReturn   /\ UNCHANGED <<embVars, dbVars, lockVars, webVars, llmVars, botVars>>

SpecRag == InitRag /\ [][NextRag]_vars

----------------------------------------------------------------------------
(* telegram_bot_handlers.handle_message and the message formatter *)

MaxLength == 4000       \* clean_response_for_telegram(text, max_length=4000)
ChunkSize == 4096       \* chunk_size = 4096

\* "📚 Справка"
HelpButton ==
    <<128218, 32, 1057, 1087, 1088, 1072, 1074, 1082, 1072>>

\* "🟢 Кратко"
ShortButton ==
    <<128994, 32, 1050, 1088, 1072, 1090, 1082, 1086>>

\* "🟡 Нормально"
DefaultButton ==
    <<128993, 32, 1053, 1086, 1088, 1084, 1072, 1083, 1100, 1085, 1086>>

\* "🔴 Подробно"
DetailedButton ==
    <<128308, 32, 1055, 1086, 1076, 1088, 1086, 1073, 1085, 1086>>

\* HELP_TEXT, its first line: "🤖 RAG Bot - Справка"
HelpText ==
    <<129302, 32, 82, 65, 71, 32, 66, 111, 116, 32, 45, 32, 1057, 1087, 1088, 1072,
      1074, 1082, 1072>>

\* "🟢 Режим Кратко активирован.\n\nТеперь ты получишь ответы 300-500 слов."
ShortActivated ==
    <<128994, 32, 1056, 1077, 1078, 1080, 1084, 32, 1050, 1088, 1072, 1090, 1082, 1086,
      32, 1072, 1082, 1090, 1080, 1074, 1080, 1088, 1086, 1074, 1072, 1085, 46, 10, 10,
      1058, 1077, 1087, 1077, 1088, 1100, 32, 1090, 1099, 32, 1087, 1086, 1083, 1091,
      1095, 1080, 1096, 1100, 32, 1086, 1090, 1074, 1077, 1090, 1099, 32, 51, 48, 48,
      45, 53, 48, 48, 32, 1089, 1083, 1086, 1074, 46>>

\* "🟡 Режим Нормально активирован.\n\nТеперь ты получишь ответы 800-1000 слов."
DefaultActivated ==
    <<128993, 32, 1056, 1077, 1078, 1080, 1084, 32, 1053, 1086, 1088, 1084, 1072, 1083,
      1100, 1085, 1086, 32, 1072, 1082, 1090, 1080, 1074, 1080, 1088, 1086, 1074, 1072,
      1085, 46, 10, 10, 1058, 1077, 1087, 1077, 1088, 1100, 32, 1090, 1099, 32, 1087,
      1086, 1083, 1091, 1095, 1080, 1096, 1100, 32, 1086, 1090, 1074, 1077, 1090, 1099,
      32, 56, 48, 48, 45, 49, 48, 48, 48, 32, 1089, 1083, 1086, 1074, 46>>

\* "🔴 Режим Подробно активирован.\n\nТеперь ты получишь ответы 1500-2500 слов с полными деталями."
DetailedActivated ==
    <<128308, 32, 1056, 1077, 1078, 1080, 1084, 32, 1055, 1086, 1076, 1088, 1086, 1073,
      1085, 1086, 32, 1072, 1082, 1090, 1080, 1074, 1080, 1088, 1086, 1074, 1072, 1085,
      46, 10, 10, 1058, 1077, 1087, 1077, 1088, 1100, 32, 1090, 1099, 32, 1087, 1086,
      1083, 1091, 1095, 1080, 1096, 1100, 32, 1086, 1090, 1074, 1077, 1090, 1099, 32,
      49, 53, 48, 48, 45, 50, 53, 48, 48, 32, 1089, 1083, 1086, 1074, 32, 1089, 32,
      1087, 1086, 1083, 1085, 1099, 1084, 1080, 32, 1076, 1077, 1090, 1072, 1083, 1103,
      1084, 1080, 46>>

\* "Пустой запрос. Напиши вопрос!"
BlankReply ==
    <<1055, 1091, 1089, 1090, 1086, 1081, 32, 1079, 1072, 1087, 1088, 1086, 1089, 46,
      32, 1053, 1072, 1087, 1080, 1096, 1080, 32, 1074, 1086, 1087, 1088, 1086, 1089,
      33>>

\* "❌ Ошибка при обработке запроса"
ErrorReply ==
    <<10060, 32, 1054, 1096, 1080, 1073, 1082, 1072, 32, 1087, 1088, 1080, 32, 1086,
      1073, 1088, 1072, 1073, 1086, 1090, 1082, 1077, 32, 1079, 1072, 1087, 1088, 1086,
      1089, 1072>>

\* "📚 ИЗ БАЗЫ ЗНАНИЙ:"
FromStoreLabel ==
    <<128218, 32, 1048, 1047, 32, 1041, 1040, 1047, 1067, 32, 1047, 1053, 1040, 1053,
      1048, 1049, 58>>

\* "🌐 ИЗ ИНТЕРНЕТА:"
FromWebLabel ==
    <<127760, 32, 1048, 1047, 32, 1048, 1053, 1058, 1045, 1056, 1053, 1045, 1058, 1040,
      58>>

\* "Источник:"
SourceLabel ==
    <<1048, 1089, 1090, 1086, 1095, 1085, 1080, 1082, 58>>

\* "подобие:"
SimilarityRu ==
    <<1087, 1086, 1076, 1086, 1073, 1080, 1077, 58>>

\* "similarity:"
SimilarityEn ==
    <<115, 105, 109, 105, 108, 97, 114, 105, 116, 121, 58>>

\* "результаты из"
ResultsFromRu ==
    <<1088, 1077, 1079, 1091, 1083, 1100, 1090, 1072, 1090, 1099, 32, 1080, 1079>>

\* "results from"
ResultsFromEn ==
    <<114, 101, 115, 117, 108, 116, 115, 32, 102, 114, 111, 109>>

\* "\n\n[Текст обрезан из-за ограничения длины]"
TruncatedNote ==
    <<10, 10, 91, 1058, 1077, 1082, 1089, 1090, 32, 1086, 1073, 1088, 1077, 1079, 1072,
      1085, 32, 1080, 1079, 45, 1079, 1072, 32, 1086, 1075, 1088, 1072, 1085, 1080,
      1095, 1077, 1085, 1080, 1103, 32, 1076, 1083, 1080, 1085, 1099, 93>>

\* the one element of a set: Once({F(v) : v \in {e}}) is F(e) with e computed
\* once, however often F reads it
Once(S) == CHOOSE x \in S : TRUE

\* str.replace(old, new)
Replace(s, old, new) ==
    Once({JoinWith(parts, new) : parts \in {Split(v, old) : v \in {s}}})

\* re.sub(r'\n{3,}', '\n\n', text): the third and later newlines of a run go
DroppedNewline(s, i) == i >= 3 /\ s[i] = Newline /\ s[i - 1] = Newline /\ s[i - 2] = Newline

KeptPlaces(s) == SelectSeq([i \in 1..Len(s) |-> i], LAMBDA i : ~DroppedNewline(s, i))

KeptOf(s, places) == [j \in 1..Len(places) |-> s[places[j]]]

CollapseRuns(s) == Once({KeptOf(v, KeptPlaces(v)) : v \in {s}})

\* format_response
format_response(text) ==
    IF text = <<>> THEN <<>>
    ELSE Once({Strip(v) : v \in
             {Replace(CollapseRuns(Replace(Replace(Replace(text,
                  FromStoreLabel, <<>>), FromWebLabel, <<>>), SourceLabel, <<>>)),
                <<45, 45, 45>>, <<45>>)}})

\* the lines clean_response_for_telegram leaves out
TechnicalLine(line) ==
    \/ IsSubstring(SimilarityRu, Lower(line))
    \/ IsSubstring(SimilarityEn, Lower(line))
    \/ IsSubstring(ResultsFromRu, Lower(line))
    \/ IsSubstring(ResultsFromEn, Lower(line))

\* result.rfind('\n'), counted from 1; 0 when there is none
LastNewline(s) ==
    IF \E i \in 1..Len(s) : s[i] = Newline
    THEN CHOOSE i \in 1..Len(s) : s[i] = Newline /\ \A j \in (i + 1)..Len(s) : s[j] # Newline
    ELSE 0

\* the cut at max_length, moved back to the last newline when that one is
\* beyond 0.8 * max_length, and the note
Truncated(cut, max_length) ==
    (IF 10 * (LastNewline(cut) - 1) > 8 * max_length
     THEN SubSeq(cut, 1, LastNewline(cut) - 1) ELSE cut) \o TruncatedNote

CleanedResult(result, max_length) ==
    IF Len(result) > max_length
    THEN Once({Truncated(cut, max_length) : cut \in {Take(result, max_length)}})
    ELSE result

\* clean_response_for_telegram
clean_response_for_telegram(text, max_length) ==
    IF text = <<>> THEN <<>>
    ELSE Once({CleanedResult(Strip(JoinWith(kept, <<Newline>>)), max_length) :
                 kept \in {SelectSeq(Split(text, <<Newline>>),
                                     LAMBDA line : ~TechnicalLine(line))}})

\* range(0, len(text), chunk_size): the parts of the text
Chunks(text) ==
    [i \in 1..((Len(text) + ChunkSize - 1) \div ChunkSize) |->
        SubSeq(text, (i - 1) * ChunkSize + 1, Min(i * ChunkSize, Len(text)))]

\* send_long_message: nothing is sent for an empty or blank text; else each
\* part is sent with reply_text, and a part whose reply_text raises is logged
\* and lost.  oks[i] says whether the i-th reply_text goes through.
send_long_message(text, oks) ==
    IF text = <<>> \/ Strip(text) = <<>> THEN [sent |-> <<>>, refused |-> 0]
    ELSE [sent    |-> SelectSeq(Chunks(text), LAMBDA part :
                         \E i \in 1..Len(Chunks(text)) : Chunks(text)[i] = part /\ oks[i]),
          refused |-> Cardinality({i \in 1..Len(Chunks(text)) : ~oks[i]})]

\* the texts a user sends: the four buttons, a blank text, a question
BotQueries ==
    {HelpButton, ShortButton, DefaultButton, DetailedButton, <<32, 10>>, <<113>>}

ModeButtons == {ShortButton, DefaultButton, DetailedButton}

ModeOfButton(query) ==
    IF query = ShortButton THEN "short"
    ELSE IF query = DefaultButton THEN "default" ELSE "detailed"

ActivatedText(query) ==
    IF query = ShortButton THEN ShortActivated
    ELSE IF query = DefaultButton THEN DefaultActivated ELSE DetailedActivated

\* context.user_data.get('mode', 'default')
CurrentMode == IF userMode = "" THEN "default" ELSE userMode

BotUpdate(query) ==
    [op |-> "handle_message", query |-> query, response |-> None, sent |-> <<>>,
     refused |-> 0, typing |-> FALSE]

\* not query or not query.strip()
BotBlank(query) == Strip(query) = <<>>

\* an update with a text arrives and handle_message is called with it
BotReceive ==
    /\ botPc = "idle"
    /\ \E query \in BotQueries : botCall' = BotUpdate(query)
    /\ botPc' = "dispatch"
    /\ UNCHANGED <<userMode, ragVars>>

\* await update.message.reply_text(text) inside the try block: when it raises,
\* the handler of line 207 sends the error message, and gives up if that
\* raises too
BotReplied(text, ok, ok_error) ==
    /\ botCall' = [botCall EXCEPT
                     !.sent = IF ok THEN <<text>>
                              ELSE IF ok_error THEN <<ErrorReply>> ELSE <<>>,
                     !.refused = IF ok THEN 0 ELSE IF ok_error THEN 1 ELSE 2]
    /\ botPc' = "done"

\* help_command: its own try block logs a reply_text that raises
BotHelped(ok) ==
    /\ botCall' = [botCall EXCEPT !.sent = IF ok THEN <<HelpText>> ELSE <<>>,
                                  !.refused = IF ok THEN 0 ELSE 1]
    /\ botPc' = "done"

\* lines 119-172: the buttons and the blank text are answered at once; for a
\* question the typing status is started and the pipeline is to be called
BotDispatch ==
    /\ botPc = "dispatch"
    /\ \E ok \in BOOLEAN, ok_error \in BOOLEAN :
          IF botCall.query = HelpButton
          THEN BotHelped(ok) /\ UNCHANGED userMode
          ELSE IF botCall.query \in ModeButtons
          THEN /\ userMode' = ModeOfButton(botCall.query)
               /\ BotReplied(ActivatedText(botCall.query), ok, ok_error)
          ELSE IF BotBlank(botCall.query)
          THEN BotReplied(BlankReply, ok, ok_error) /\ UNCHANGED userMode
          ELSE /\ botCall' = [botCall EXCEPT !.typing = TRUE]
               /\ botPc' = "process"
               /\ UNCHANGED userMode
    /\ UNCHANGED ragVars

\* line 185: rag.process(query, current_mode) is called
BotProcess ==
    /\ botPc = "process"
    /\ Process
    /\ ragCall'.query = botCall.query
    /\ ragCall'.user_mode = CurrentMode
    /\ botPc' = "await"
    /\ UNCHANGED <<botCall, userMode>>

\* the response is formatted, cleaned and sent
BotSent(response, out) ==
    botCall' = [botCall EXCEPT !.response = response, !.typing = FALSE,
                               !.sent = out.sent, !.refused = out.refused]

\* lines 185-203: process has returned; the typing status is cancelled, the
\* response is formatted, cleaned and given to send_long_message
BotRespond ==
    /\ botPc = "await"
    /\ ragPc = "returned"
    /\ \E oks \in [1..1 -> BOOLEAN],
          formatted_response \in {format_response(ragCall.ret)} :
          \E cleaned_response \in
                 {clean_response_for_telegram(formatted_response, MaxLength)} :
             BotSent(ragCall.ret, send_long_message(cleaned_response, oks))
    /\ botPc' = "done"
    /\ ragPc' = "idle"
    /\ ragCall' = NoCall
    /\ UNCHANGED userMode

\* handle_message returns
BotDone ==
    /\ botPc = "done"
    /\ botPc' = "idle"
    /\ botCall' = NoCall
    /\ UNCHANGED <<userMode, ragVars>>

BotInit ==
    /\ botPc = "idle"
    /\ botCall = NoCall
    /\ userMode = ""

InitHandle == BotInit /\ RagFrozen /\ LlmFrozen /\ EmbInit /\ DbFrozen /\ LockFrozen /\ WebFrozen

HandleRest == <<embVars, dbVars, lockVars, webVars, llmVars>>

\* the steps of process while handle_message awaits it
PipelineStep ==
    /\ botPc = "await"
    /\ DbSearched \/ WebSearched \/ Persisted \/ RagAnswer \/ RagAnswered
    /\ UNCHANGED botVars

\* what the event loop does for an update that has arrived
HandleSteps ==
    \/ BotDispatch  /\ UNCHANGED HandleRest
    \/ BotProcess   /\ UNCHANGED HandleRest
    \/ PipelineStep /\ UNCHANGED HandleRest
    \/ BotRespond   /\ UNCHANGED HandleRest
    \/ BotDone      /\ UNCHANGED HandleRest

NextHandle ==
    \/ BotReceive /\ UNCHANGED HandleRest
    \/ HandleSteps

\* The event loop runs a coroutine that is ready, and every call the handler
\* awaits returns or times out: a step that stays possible is taken.
SpecHandle == InitHandle /\ [][NextHandle]_vars /\ WF_vars(HandleSteps)

----------------------------------------------------------------------------
(* Claims about EmbeddingsService, stated on the call that has just returned *)

IsEmbedCall == embPc = "returned" /\ embCall.op \in {"embed", "embed_batch"}

\* the server's answer to one request, as the caller of embed must see it
Answer(text, outcome) ==
    IF outcome = "ok" THEN OllamaEmbedding(text)
    ELSE IF outcome = "nokey" THEN <<>>
    ELSE ZeroVector

IsMiss(i) == Hash(embCall.texts[i]) \notin CacheKeys(embCall.before)

\* position i is the MissRank(i)-th text that embed sends to the server
MissRank(i) == Cardinality({j \in 1..i : IsMiss(j)})

\* the vectors this call obtained for texts[i]: what the cache held under its key
\* when the call began, and the answers to the requests whose prompt was texts[i]
ObtainedFor(i) ==
    (IF IsMiss(i) THEN {} ELSE {CacheGet(embCall.before, Hash(embCall.texts[i]))})
    \cup {Answer(embCall.texts[i], embCall.outs[k]) :
            k \in {n \in 1..Len(embCall.prompts) : embCall.prompts[n] = embCall.texts[i]}}

\* C1: embed(texts) and embed_batch(texts, batch_size) return a list as long as
\* texts whose element i is a vector obtained for texts[i] (cached under its key
\* or answered to a request for that very text), whatever the hits, misses and
\* evictions; for embed, a hit returns the cached vector and a miss the answer
\* to its own request.
C1_IndexPreserved ==
    IsEmbedCall =>
        /\ Len(embCall.result) = Len(embCall.texts)
        /\ \A i \in 1..Len(embCall.texts) : embCall.result[i] \in ObtainedFor(i)
        /\ embCall.op = "embed" =>
              \A i \in 1..Len(embCall.texts) :
                 embCall.result[i] =
                    IF IsMiss(i)
                    THEN Answer(embCall.texts[i], embCall.outs[MissRank(i)])
                    ELSE CacheGet(embCall.before, Hash(embCall.texts[i]))

\* C1 witness: a chunked embed_batch with a hit, a miss and an eviction
C1_Witness ==
    /\ IsEmbedCall
    /\ embCall.op = "embed_batch"
    /\ embCall.batch_size < Len(embCall.texts)
    /\ \E i, j \in 1..Len(embCall.texts) : IsMiss(i) /\ ~IsMiss(j)
    /\ \E k \in CacheKeys(embCall.before) : k \notin CacheKeys(cache)

MissKeys == {Hash(embCall.texts[i]) : i \in {j \in 1..Len(embCall.texts) : IsMiss(j)}}

C3_FailureIsolated ==
    (IsEmbedCall /\ embCall.op = "embed") =>
        /\ Len(embCall.result) = Len(embCall.texts)
        /\ \A i \in 1..Len(embCall.texts) :
              IsMiss(i) =>
                 LET o == embCall.outs[MissRank(i)]
                 IN  /\ o \in {"status", "exc"} =>
                           /\ Len(embCall.result[i]) = FallbackDim
                           /\ \A d \in 1..FallbackDim : embCall.result[i][d] = 0
                     /\ o = "ok" => embCall.result[i] = OllamaEmbedding(embCall.texts[i])

\* C3 witness: one call with a request that raised, one answered with a bad
\* status and, after them, one that succeeded
C3_Witness ==
    /\ IsEmbedCall
    /\ embCall.op = "embed"
    /\ \E i, j, k \in 1..Len(embCall.texts) :
          /\ i < k /\ j < k
          /\ IsMiss(i) /\ IsMiss(j) /\ IsMiss(k)
          /\ embCall.outs[MissRank(i)] = "exc"
          /\ embCall.outs[MissRank(j)] = "status"
          /\ embCall.outs[MissRank(k)] = "ok"
          /\ embCall.result[k] = OllamaEmbedding(embCall.texts[k])

----------------------------------------------------------------------------
(* DatabaseManager: what a returned call shows *)

IsAddCall == dbPc = "returned" /\ dbCall.op = "add_documents"

IsSearchCall == dbPc = "returned" /\ dbCall.op = "search"

IsDeleteCall == dbPc = "returned" /\ dbCall.op = "delete_old_documents"

\* the trimmed texts of more than ten characters, in the order given
Survivors(documents) ==
    SelectSeq([i \in 1..Len(documents) |-> Strip(documents[i].text)],
              LAMBDA text : Len(text) > 10)

\* how many times a call was made
Count(calls, name) == Cardinality({i \in 1..Len(calls) : calls[i] = name})

\* the cases in which add_documents is to answer False
AddFails ==
    \/ dbCall.documents = <<>>
    \/ Survivors(dbCall.documents) = <<>>
    \/ dbCall.service = "none"
    \/ dbCall.service = "short"
    \/ ~dbCall.insert_ok

\* C4: add_documents never raises; for an empty list, a list whose entries are
\* all discarded, no embeddings service, an embedding count that differs from
\* the number of surviving documents, or a failing insert, it returns False and
\* the collection is what it was; otherwise it returns True and the collection
\* is extended, by one insert, with exactly the surviving documents in order.
C4_AddAllOrNothing ==
    IsAddCall =>
        LET kept == Survivors(dbCall.documents)
            old  == Len(dbCall.before)
        IN  /\ ~dbCall.raised
            /\ Count(dbCall.calls, "add") <= 1
            /\ IF AddFails
               THEN dbCall.ret = FALSE /\ store = dbCall.before
               ELSE /\ dbCall.ret = TRUE
                    /\ Count(dbCall.calls, "add") = 1
                    /\ Len(store) = old + Len(kept)
                    /\ SubSeq(store, 1, old) = dbCall.before
                    /\ \A k \in 1..Len(kept) :
                          /\ store[old + k].document = kept[k]
                          /\ store[old + k].source = dbCall.source
                          /\ store[old + k].id \notin StoreIds(dbCall.before)

\* a list with a discarded entry and a kept one, given to a collection that
\* holds a document, whose insert fails
C4_Witness ==
    /\ IsAddCall
    /\ dbCall.before # <<>>
    /\ Len(dbCall.documents) = 2
    /\ Len(Survivors(dbCall.documents)) = 1
    /\ dbCall.service = "real"
    /\ ~dbCall.insert_ok
    /\ dbCall.ret = FALSE
    /\ Count(dbCall.calls, "add") = 1

\* a query of white space only, or none
Blank(query) == \A i \in 1..Len(query) : IsSpace(query[i])

\* C6: search with a blank query, or on an empty collection, returns the empty
\* string and calls neither the embedding service nor the index.
C6_BlankOrEmptyShortCircuit ==
    (IsSearchCall /\ (Blank(dbCall.query) \/ dbCall.before = <<>>)) =>
        /\ dbCall.ret = <<>>
        /\ Count(dbCall.calls, "embed") = 0
        /\ Count(dbCall.calls, "query") = 0
        /\ cache = dbCall.cache_before

\* a query of white space on a collection that holds documents, with the
\* embedding service at hand
C6_Witness ==
    /\ IsSearchCall
    /\ dbCall.query # <<>>
    /\ Blank(dbCall.query)
    /\ dbCall.before # <<>>
    /\ dbCall.service = "real"
    /\ dbCall.count_ok
    /\ dbCall.ret = <<>>

\* the index answered with documents, distances and metadatas
IndexAnswered == IsSearchCall /\ dbCall.resp.kind = "ok"

\* the results of the index whose similarity is at least 0.35, formatted
Relevant ==
    LET resp == dbCall.resp
        pass == SelectSeq([i \in 1..Len(resp.hits) |-> i],
                          LAMBDA i : SimScale - resp.distances[i] >= 350)
    IN  [k \in 1..Len(pass) |->
            FormatDoc(dbCall.before[resp.hits[pass[k]]].source,
                      dbCall.before[resp.hits[pass[k]]].document)]

SearchFails ==
    /\ ~Blank(dbCall.query)
    /\ \/ ~dbCall.count_ok
       \/ dbCall.before # <<>> /\ dbCall.service = "none"
       \/ dbCall.resp.kind \in {"raise", "short"}

\* C8: search never raises, it returns a string; when something inside it
\* fails, the empty string.
C8_SearchNeverRaises ==
    IsSearchCall =>
        /\ ~dbCall.raised
        /\ dbCall.ret # None
        /\ SearchFails => dbCall.ret = <<>>

\* the query of the index raised
C8_Witness ==
    /\ IsSearchCall
    /\ dbCall.resp.kind = "raise"
    /\ Count(dbCall.calls, "query") = 1
    /\ dbCall.ret = <<>>

\* the ISO-8601 string of now minus days, for the returned call
Cutoff == IsoFormat([dbCall.at EXCEPT !.day = dbCall.at.day - dbCall.days])

\* the documents of the collection that are not older than the cutoff
Remaining ==
    SelectSeq(dbCall.before, LAMBDA d : ~LexLess(d.timestamp, Cutoff))

\* C9: delete_old_documents removes the documents whose timestamp string is
\* lexicographically below the ISO-8601 string of now minus days and no other,
\* and returns how many it removed; on an empty collection or an error it
\* returns 0 and removes nothing.
C9_DeleteOld ==
    IsDeleteCall =>
        IF dbCall.fail = "get" \/ dbCall.before = <<>>
              \/ (dbCall.fail = "delete" /\ Remaining # dbCall.before)
        THEN dbCall.ret = 0 /\ store = dbCall.before
        ELSE /\ store = Remaining
             /\ dbCall.ret = Len(dbCall.before) - Len(Remaining)

\* of two documents the older is removed and the newer stays
C9_Witness ==
    /\ IsDeleteCall
    /\ dbCall.fail = "no"
    /\ Len(dbCall.before) = 2
    /\ Len(store) = 1
    /\ dbCall.ret = 1
    /\ store[1].timestamp = Cutoff

----------------------------------------------------------------------------
(* The write lock *)

\* the task is at a call of the collection: get, delete or add
AtStore(t) == task[t].pc \in {"get", "delete", "insert"}

\* C5: the writes of add_documents, delete_old_documents and clear are
\* serialized by write_lock: at most one task is at a call of the collection,
\* and a task that is at one holds the lock.
C5_WritesSerialized ==
    /\ Cardinality({t \in Tasks : AtStore(t)}) <= 1
    /\ \A t \in Tasks : AtStore(t) => lock = t

----------------------------------------------------------------------------
(* WebSearchService.search *)

\* a search is under way or has just returned
InWebSearch == webPc # "idle"

\* the backends whose answer was not empty, by their place in the order
Answered == {i \in 1..Len(webCall.answers) : webCall.answers[i] # <<>>}

\* C10: search contacts DuckDuckGo Lite, Bing and Google in this order, a
\* backend only after every earlier one answered with the empty list (or
\* failed), and none after a backend answered with results; what it returns
\* is the first num_results of that one backend's results, or the empty list
\* when all three answered empty.
C10_FirstBackendWins ==
    InWebSearch =>
        LET n == Len(webCall.contacted)
        IN  /\ webCall.contacted = SubSeq(<<"ddg", "bing", "google">>, 1, n)
            /\ \A i \in Answered : i = n /\ webPc = "returned"
            /\ webPc = "returned" =>
                  IF Answered = {}
                  THEN n = 3 /\ webCall.ret = <<>>
                  ELSE /\ webCall.ret = Take(webCall.answers[n], webCall.num_results)
                       /\ \A k \in 1..Len(webCall.ret) :
                             webCall.ret[k].url = UrlOf(webCall.contacted[n])

\* the DuckDuckGo Lite request failed, the page of Bing had no result, Google
\* gave one and the search returned it
C10_Witness ==
    /\ webPc = "returned"
    /\ webCall.contacted = <<"ddg", "bing", "google">>
    /\ webCall.responses[1].kind = "exception"
    /\ webCall.responses[2].kind = "page"
    /\ webCall.answers[3] # <<>>
    /\ webCall.ret = webCall.answers[3]

\* C11: every entry search returns has a title and a url that are not empty
\* and a snippet of at least 20 characters, and there are at most
\* min(num_results, max_results) entries.
C11_EntriesValid ==
    webPc = "returned" =>
        /\ Len(webCall.ret) <= Min(webCall.num_results, WebSearchResults)
        /\ \A k \in 1..Len(webCall.ret) :
              /\ webCall.ret[k].title # <<>>
              /\ webCall.ret[k].url # <<>>
              /\ Len(webCall.ret[k].snippet) >= MinSnippetLen

\* the backend at place i of the order failed: its request raised, or its
\* page came with a status other than 200
BackendFailed(i) ==
    \/ webCall.responses[i].kind = "exception"
    \/ webCall.responses[i].status # 200

\* C12: a backend whose request fails (time-out, parse error, status other
\* than 200) gives the empty list, so that the next backend is tried; search
\* itself never raises.
C12_FailureIsNoResults ==
    InWebSearch =>
        \A i \in 1..Len(webCall.contacted) : BackendFailed(i) => webCall.answers[i] = <<>>

----------------------------------------------------------------------------
(* Claims about embed run by several threads *)

\* no thread is inside embed
CacheQuiet == \A t \in Tasks : task[t].pc \in {"idle", "returned", "raised"}

\* C27: with several threads in embed at once, no interleaving of the lookup,
\* the insert and the eviction of the oldest entry makes embed raise, return a
\* vector at an index other than its text's, or leave the cache larger than
\* its cap once the calls are over.
C27_CacheSafeUnderThreads ==
    /\ \A t \in Tasks : task[t].pc # "raised"
    /\ \A t \in Tasks :
          task[t].pc = "returned" =>
              \A i \in 1..Len(task[t].texts) :
                  task[t].embeddings[i] = OllamaEmbedding(task[t].texts[i])
    /\ CacheQuiet => Len(cache) <= CacheSize

----------------------------------------------------------------------------
(* Claims about LLMService, stated on the call that has just returned *)

IsGenerateCall == llmPc = "returned" /\ llmCall.op = "generate"

\* C18: in "short" mode the first request to the generation backend carries
\* num_predict = min(configured num_predict, 120), whatever is configured (300
\* becomes 120, 3 stays 3); in the modes "default" and "detailed" it carries the
\* configured num_predict unchanged.
C18_ShortBudgetCapped ==
    (IsGenerateCall /\ llmCall.mode \in Modes) =>
        llmCall.requests[1].num_predict =
            IF llmCall.mode = "short"
            THEN Min(modeCfg["short"].num_predict, ShortCeiling)
            ELSE modeCfg[llmCall.mode].num_predict

C18_Witness ==
    /\ IsGenerateCall
    /\ llmCall.mode = "short"
    /\ modeCfg["short"].num_predict = 300
    /\ llmCall.requests[1].num_predict = 120

\* the server's answers to the call, with time-outs for the requests not made
PaddedOutcomes ==
    llmCall.outcomes \o Rep(Fail("timeout"), MaxCalls + 1 - Len(llmCall.outcomes))

\* the same call made with mode "default"
AsDefault == generate(modeCfg, llmCall.prompt, "default", PaddedOutcomes)

\* C19: generate called with a mode that is not configured does what it does
\* with mode "default": the requests carry the num_predict, temperature and
\* top_k of "default", an answer that looks incomplete is continued, and the
\* requests made and the answer returned are those of the "default" call.
C19_UnknownModeIsDefault ==
    (IsGenerateCall /\ llmCall.mode \notin Modes) =>
        /\ llmCall.requests[1].num_predict = modeCfg["default"].num_predict
        /\ llmCall.requests[1].temperature = modeCfg["default"].temperature
        /\ llmCall.requests[1].top_k = modeCfg["default"].top_k
        /\ llmCall.requests = AsDefault.requests
        /\ llmCall.ret = AsDefault.ret
        /\ _looks_incomplete(_clean_answer(llm_call_ollama(llmCall.outcomes[1])),
                             modeCfg["default"].num_predict)
              => Len(llmCall.requests) >= 2

C19_Witness ==
    /\ IsGenerateCall
    /\ llmCall.mode = "bogus"
    /\ Len(llmCall.requests) = 3
    /\ Len(llmCall.ret) > 100

\* the first request failed or was answered with no text
FirstCallFailed ==
    \/ llmCall.outcomes[1].kind \in Failures
    \/ llmCall.outcomes[1].response = None
    \/ Strip(llmCall.outcomes[1].response) = <<>>

\* C20: when the first generation request times out, cannot connect, fails in
\* any other way or is answered with empty text, generate returns the empty
\* string, raises nothing and makes no further request, in every mode.
C20_FailureIsEmptyAnswer ==
    (IsGenerateCall /\ FirstCallFailed) =>
        /\ llmCall.ret = <<>>
        /\ ~llmCall.raised
        /\ Len(llmCall.requests) = 1

C20_Witness ==
    /\ IsGenerateCall
    /\ llmCall.mode = "detailed"
    /\ llmCall.outcomes[1].kind = "timeout"
    /\ llmCall.ret = <<>>
    /\ Len(llmCall.requests) = 1

\* C21: in "short" mode generate makes exactly one generation request, however
\* long the returned text is and however it ends; the continuation protocol is
\* for "default" and "detailed" only.
C21_ShortNeverContinued ==
    (IsGenerateCall /\ llmCall.mode = "short") => Len(llmCall.requests) = 1

C21_Witness ==
    /\ IsGenerateCall
    /\ llmCall.mode = "short"
    /\ llmCall.ret # <<>>
    /\ _looks_incomplete(llmCall.ret, llmCall.requests[1].num_predict)
    /\ Len(llmCall.requests) = 1

\* the characters a finished text ends in
TerminalMarkers == {46, 33, 63, 96, 34, 187, 41, 93, 125}

LastIsMarker(trimmed) == trimmed # <<>> /\ trimmed[Len(trimmed)] \in TerminalMarkers

EndsWithMarker(text) == LastIsMarker(Strip(text))

Judged == llmPc = "returned" /\ llmCall.op = "_looks_incomplete"

\* C22: _looks_incomplete says yes exactly when the text is not empty, its
\* trimmed form ends in none of the terminal markers . ! ? ``` ` " » ) ] } and
\* 1000 * len(text) > 2975 * max_tokens with max_tokens > 0; so a text ending
\* in a marker is never incomplete however long, and a text at or below the
\* threshold is never incomplete however it ends.
C22_LooksIncompleteIff ==
    Judged =>
        /\ llmCall.ret <=>
              /\ llmCall.text # <<>>
              /\ ~EndsWithMarker(llmCall.text)
              /\ llmCall.max_tokens > 0
              /\ 1000 * Len(llmCall.text) > 2975 * llmCall.max_tokens
        /\ EndsWithMarker(llmCall.text) => ~llmCall.ret
        /\ 1000 * Len(llmCall.text) <= 2975 * llmCall.max_tokens => ~llmCall.ret

C22_Witness ==
    /\ Judged
    /\ llmCall.max_tokens = 40
    /\ Len(llmCall.text) = 120
    /\ llmCall.text[120] = 97
    /\ llmCall.ret

Cleaned == llmPc = "returned" /\ llmCall.op = "_clean_answer"

\* the text has three newlines in a row
HasNewlineRun(text) ==
    \E i \in 1..(Len(text) - 2) :
        text[i] = 10 /\ text[i + 1] = 10 /\ text[i + 2] = 10

\* a line of the text, or the text itself, ends in white space
HasLineEndingInSpace(text) ==
    \/ \E i \in 1..(Len(text) - 1) : text[i + 1] = 10 /\ text[i] \in {32, 9, 13}
    \/ text # <<>> /\ text[Len(text)] \in {32, 9, 13}

\* C26: the text _clean_answer returns has no run of three or more newlines
\* and no line that ends in white space, whatever text it is given, lines of
\* white space only included.
C26_CleanIsNormalised ==
    Cleaned =>
        /\ ~HasNewlineRun(llmCall.ret)
        /\ ~HasLineEndingInSpace(llmCall.ret)

\* C23: whatever the backend answers, generate makes at most 2 continuation
\* requests (at most 3 requests in all) and returns an answer; the counter of
\* continuations never exceeds 2.
C23_ContinuationsBounded ==
    IsGenerateCall =>
        /\ llmCall.retries <= 2
        /\ Len(llmCall.requests) = 1 + llmCall.retries
        /\ Len(llmCall.requests) <= 3
        /\ ~llmCall.raised

C23_Witness ==
    /\ IsGenerateCall
    /\ llmCall.retries = 2
    /\ Len(llmCall.requests) = 3
    /\ _looks_incomplete(llmCall.ret, llmCall.requests[1].num_predict)

\* the first text, cleaned, looks incomplete in a mode that is continued
FirstLooksIncomplete ==
    /\ IsGenerateCall
    /\ llmCall.mode \in {"default", "detailed"}
    /\ llmCall.trail # <<>>
    /\ Len(llmCall.trail[1]) * 1000 > 2975 * llmCall.requests[1].num_predict
    /\ ~EndsWithMarker(llmCall.trail[1])

ContinuationText(i) == llm_call_ollama(llmCall.outcomes[i])

\* the i-th request's answer is empty, shorter than 50 characters once cleaned,
\* or contained in the running answer when case is ignored
ContinuationRejected(i) ==
    \/ ContinuationText(i) = <<>>
    \/ Len(_clean_answer(ContinuationText(i))) < 50
    \/ IsSubstring(Lower(_clean_answer(ContinuationText(i))),
                   Lower(llmCall.trail[i - 1]))

\* C25: a continuation that is empty, shorter than 50 characters or a
\* case-insensitive substring of the answer so far is rejected: no further
\* request is made and the answer returned is the answer as it was before; any
\* other continuation is appended to the answer after a blank line.
C25_ContinuationRejection ==
    IsGenerateCall =>
        \A i \in 2..Len(llmCall.requests) :
            IF ContinuationRejected(i)
            THEN /\ i = Len(llmCall.requests)
                 /\ llmCall.ret = llmCall.trail[i - 1]
            ELSE llmCall.trail[i] =
                     llmCall.trail[i - 1] \o <<10, 10>> \o _clean_answer(ContinuationText(i))

C25_Witness ==
    /\ IsGenerateCall
    /\ Len(llmCall.requests) = 3
    /\ ~ContinuationRejected(2)
    /\ ContinuationRejected(3)
    /\ ContinuationText(3) = Letters(66, 50)
    /\ llmCall.ret = llmCall.trail[2]

----------------------------------------------------------------------------
(* Claims about RAGPipeline.process, stated on the request being processed *)

\* the positions of the calls process has made to one collaborator
CallsTo(target) == {i \in 1..Len(ragCall.calls) : ragCall.calls[i].to = target}

\* C13: process called with an empty or white-space-only query, in any mode,
\* returns the fixed empty-query message at once: it is never found waiting for
\* a collaborator and has called none of them (the vector store, and through it
\* the embedding backend, the web search, the language model).
C13_BlankQueryRejected ==
    (ragPc # "idle" /\ Blank(ragCall.query)) =>
        /\ ragPc = "returned"
        /\ ragCall.ret = EmptyQueryMessage
        /\ ragCall.calls = <<>>

C13_Witness ==
    /\ ragPc = "returned"
    /\ ragCall.query = <<32, 10>>
    /\ ragCall.user_mode = "detailed"
    /\ ragCall.ret = EmptyQueryMessage
    /\ ragCall.calls = <<>>

\* C14: when, for a query that is not blank, the store search gave no context
\* and the web search gave no context either, process returns the fixed
\* no-information message, and has neither called the language model nor
\* add_documents.
C14_NothingFound ==
    (/\ ragPc = "returned"
     /\ ~Blank(ragCall.query)
     /\ ragCall.db_results = <<>>
     /\ ragCall.web_results = <<>>) =>
        /\ ragCall.ret = NoInfoMessage
        /\ CallsTo("llm.generate") = {}
        /\ CallsTo("db.add_documents") = {}

C14_Witness ==
    /\ ragPc = "returned"
    /\ ragCall.query = <<113>>
    /\ ragCall.db_results = <<>>
    /\ ragCall.results = <<>>
    /\ ragCall.web_results = <<>>
    /\ ragCall.ret = NoInfoMessage
    /\ Len(ragCall.calls) = 2

\* the context the generator must be given when the web search gave results
StoreThenWeb ==
    IF ragCall.db_results = <<>> THEN ragCall.web_results
    ELSE ragCall.db_results \o WebSeparator \o ragCall.web_results

PersistPending == ragPc = "persist"

\* C16: saving the web results is detached from the response: while
\* add_documents for the request is still pending (running, or waiting for the
\* write lock), process can go on to the generator, that is, its next step
\* towards the response is enabled.
C16_ResponseDoesNotWait == PersistPending => ENABLED RagAnswer

\* a result with a title, a snippet of more than 20 characters and a url
ValidResult(r) ==
    Strip(r.title) # <<>> /\ Len(Strip(r.snippet)) > 20 /\ r.url # <<>>

\* C17: for a query that is not blank, with nothing found in the store and a
\* web search that returned at least one valid {title, snippet, url} result,
\* process has given the generator a context that is not empty, has called
\* add_documents with source "web_auto" and with no other source, and returns
\* an answer that is not the empty string.
C17_EndToEnd ==
    (/\ ragPc = "returned"
     /\ ~Blank(ragCall.query)
     /\ ragCall.db_results = <<>>
     /\ \E k \in 1..Len(ragCall.results) : ValidResult(ragCall.results[k])) =>
        /\ CallsTo("llm.generate") # {}
        /\ \A i \in CallsTo("llm.generate") : ragCall.calls[i].context # <<>>
        /\ CallsTo("db.add_documents") # {}
        /\ \A i \in CallsTo("db.add_documents") : ragCall.calls[i].source = WebAuto
        /\ ragCall.ret # <<>>

\* the settings of the request's mode
RequestConfig == ModeConfigOf(modeCfg, ragCall.mode)

\* C30: process composes the retrieval as the mode's settings say: it queries
\* the vector store only when db_search is true in the resolved settings and
\* searches the web only when web_search is true.
C30_RetrievalPerModeConfig ==
    (ragPc # "idle") =>
        /\ ~RequestConfig.db_search => CallsTo("db.search") = {}
        /\ ~RequestConfig.web_search => CallsTo("web.search") = {}

----------------------------------------------------------------------------
(* Claims about config.MODE_CONFIGS *)

ConfigImported == llmPc = "returned" /\ llmCall.op = "import config"

NumericFields == {"num_predict", "temperature", "top_k", "web_search_results"}

\* the texts of the model that are not JSON
IsMalformed(value) == value = EnvMalformed

\* C29: after startup, whatever overrides the environment gives, MODE_CONFIGS
\* has exactly the modes short, default and detailed, every numeric setting of
\* every mode is non-negative, and a mode whose override is malformed JSON has
\* its default settings.
C29_ModeConfigsValid ==
    ConfigImported =>
        /\ DOMAIN modeCfg = {"short", "default", "detailed"}
        /\ \A mode \in DOMAIN modeCfg : \A f \in NumericFields : modeCfg[mode][f] >= 0
        /\ \A mode \in DOMAIN modeCfg :
              IsMalformed(llmCall.env[mode]) => modeCfg[mode] = DefaultModes[mode]

----------------------------------------------------------------------------
(* Claims about handle_message *)

\* the update is a question: not a button, not blank
IsQuestion ==
    /\ botCall.op = "handle_message"
    /\ botCall.query \notin {HelpButton} \cup ModeButtons
    /\ Strip(botCall.query) # <<>>

\* C28: every non-blank question given to handle_message is handled to the end
\* and, when the handler returns, at least one reply has been delivered for it
\* (or Telegram refused a reply that was sent): also when the language model
\* failed or returned nothing.
C28_QuestionGetsReply ==
    /\ [](botPc = "dispatch" /\ IsQuestion => <>(botPc = "done"))
    /\ [](botPc = "done" /\ IsQuestion => botCall.sent # <<>> \/ botCall.refused > 0)

----------------------------------------------------------------------------
(* Claims about the size of the embedding cache *)

\* the distinct texts this call sent to the server
NewTexts == {embCall.texts[i] : i \in {j \in 1..Len(embCall.texts) : IsMiss(j)}}

\* C31: the embedding cache is bounded.  When embed, embed_batch or clear_cache
\* has returned, the cache holds at most cache_size entries, one per key,
\* whatever the calls before and however long the list, a single call with
\* more than cache_size new texts included; after clear_cache it is empty.
C31_CacheBounded ==
    embPc = "returned" =>
        /\ Len(cache) <= CacheSize
        /\ Cardinality(CacheKeys(cache)) = Len(cache)
        /\ embCall.op = "clear_cache" => cache = <<>>

\* C31 witness: one embed call that brings more new texts than the cache holds
C31_Witness ==
    /\ IsEmbedCall
    /\ embCall.op = "embed"
    /\ Cardinality(NewTexts) > CacheSize
    /\ Len(cache) = CacheSize

----------------------------------------------------------------------------
(* Claims about cached fallback vectors *)

IsFailure(outcome) == outcome \in {"status", "exc"}

\* the request of this embed call for texts[i] failed
FailedAt(i) == IsMiss(i) /\ IsFailure(embCall.outs[MissRank(i)])

\* no later position of the list holds the same text
LastOf(i) == \A j \in (i + 1)..Len(embCall.texts) : embCall.texts[j] # embCall.texts[i]

\* the cache holds the fallback vector under the key of text
FallbackCached(c, text) ==
    Hash(text) \in CacheKeys(c) /\ CacheGet(c, Hash(text)) = ZeroVector

\* an embed call that finds the fallback vector under a text's key returns it
\* for that text and sends no request for it, whatever the server would answer
FallbackServed ==
    (IsEmbedCall /\ embCall.op = "embed") =>
        \A i \in 1..Len(embCall.texts) :
            FallbackCached(embCall.before, embCall.texts[i]) =>
                /\ embCall.result[i] = ZeroVector
                /\ embCall.texts[i] \notin Range(embCall.prompts)

\* C37: fallback vectors are cached like real ones.  Once embed has returned
\* the zero vector for a text whose request failed, the cache holds the zero
\* vector under that text's key for as long as the entry is not evicted or the
\* cache cleared, and every later embed that finds it there returns it without
\* a request, even when the server answers again.
C37_FallbackCached ==
    /\ (IsEmbedCall /\ embCall.op = "embed") =>
          \A i \in 1..Len(embCall.texts) :
              (FailedAt(i) /\ Hash(embCall.texts[i]) \in CacheKeys(cache))
                  => FallbackCached(cache, embCall.texts[i])
    /\ FallbackServed

\* C37 as amended: the same, for a text whose last request of the call failed
\* (a list may hold the same text twice, and the later answer is the one kept)
C37_LastFallbackCached ==
    /\ (IsEmbedCall /\ embCall.op = "embed") =>
          \A i \in 1..Len(embCall.texts) :
              (FailedAt(i) /\ LastOf(i) /\ Hash(embCall.texts[i]) \in CacheKeys(cache))
                  => FallbackCached(cache, embCall.texts[i])
    /\ FallbackServed

\* C37 witness: an embed call finds the fallback vector of one text in the cache
\* and returns it, while its request for another text is answered
C37_Witness ==
    /\ IsEmbedCall
    /\ embCall.op = "embed"
    /\ \E i, j \in 1..Len(embCall.texts) :
          /\ FallbackCached(embCall.before, embCall.texts[i])
          /\ embCall.result[i] = ZeroVector
          /\ IsMiss(j)
          /\ embCall.outs[MissRank(j)] = "ok"
          /\ embCall.result[j] = OllamaEmbedding(embCall.texts[j])

----------------------------------------------------------------------------
(* Claims about the string that search returns *)

\* result i of the index passes the filter
Kept(i) == SimScale - dbCall.resp.distances[i] >= SimThreshold

\* the document that result i of the index names
ResultDoc(i) == dbCall.before[dbCall.resp.hits[i]]

\* result i as search writes it: the source tag line, then the text
Written(i) ==
    <<91, 1048, 1089, 1090, 1086, 1095, 1085, 1080, 1082, 58, 32>>
        \o ResultDoc(i).source \o <<93>> \o <<Newline>> \o ResultDoc(i).document

\* the results that pass the filter and come before result i
KeptBefore(i) == {j \in 1..(i - 1) : Kept(j)}

\* Sum(S): the sum of Len(Written(j)) + 2 over j in S
RECURSIVE WrittenLen(_)
WrittenLen(S) ==
    IF S = {} THEN 0
    ELSE LET j == CHOOSE x \in S : TRUE
         IN  Len(Written(j)) + 2 + WrittenLen(S \ {j})

\* where result i starts in the returned string (0 for the first)
OffsetOf(i) == WrittenLen(KeptBefore(i))

\* C32: the string search returns is made of the results of the index that
\* pass the filter, each once, in the order of the index: result i is written
\* as its source tag line and its text, right after the passing results that
\* precede it and a blank line, and nothing else is in the string.
C32_SearchOutputInIndexOrder ==
    IndexAnswered =>
        /\ \A i \in 1..Len(dbCall.resp.hits) :
              Kept(i) =>
                 /\ Len(dbCall.ret) >= OffsetOf(i) + Len(Written(i))
                 /\ SubSeq(dbCall.ret, OffsetOf(i) + 1, OffsetOf(i) + Len(Written(i)))
                       = Written(i)
                 /\ OffsetOf(i) > 0 =>
                       SubSeq(dbCall.ret, OffsetOf(i) - 1, OffsetOf(i))
                          = <<Newline, Newline>>
        /\ Len(dbCall.ret) =
              IF \E i \in 1..Len(dbCall.resp.hits) : Kept(i)
              THEN WrittenLen({i \in 1..Len(dbCall.resp.hits) : Kept(i)}) - 2
              ELSE 0

\* C32 witness: the index gives the second document of the collection first;
\* both pass, they differ, and the string holds them in the order of the index
C32_Witness ==
    /\ IndexAnswered
    /\ dbCall.resp.hits = <<2, 1>>
    /\ Kept(1) /\ Kept(2)
    /\ Written(1) # Written(2)
    /\ dbCall.ret = Written(1) \o <<Newline, Newline>> \o Written(2)

----------------------------------------------------------------------------
(* Claims about the parameters of continuation requests *)

\* the settings generate resolves for the mode it was given
CallSettings ==
    IF llmCall.mode \in Modes THEN modeCfg[llmCall.mode] ELSE modeCfg["default"]

\* the budget of the first request: the configured one, at most 120 in short mode
OriginalBudget ==
    IF llmCall.mode = "short" /\ CallSettings.num_predict > 120 THEN 120
    ELSE CallSettings.num_predict

\* C33: every continuation request, the first and the second, asks for
\* floor(maxTokens / 2) tokens, maxTokens being the budget of the first request;
\* the budget is not halved again, and temperature and top_k are those of the
\* first request.
C33_ContinuationBudget ==
    IsGenerateCall =>
        /\ llmCall.requests[1].num_predict = OriginalBudget
        /\ \A i \in 2..Len(llmCall.requests) :
              /\ llmCall.requests[i].kind = "continuation"
              /\ 2 * llmCall.requests[i].num_predict <= OriginalBudget
              /\ 2 * llmCall.requests[i].num_predict + 1 >= OriginalBudget
              /\ llmCall.requests[i].temperature = llmCall.requests[1].temperature
              /\ llmCall.requests[i].top_k = llmCall.requests[1].top_k
              /\ llmCall.requests[i].temperature = CallSettings.temperature
              /\ llmCall.requests[i].top_k = CallSettings.top_k

\* C33 witness: a call under an odd budget of 5 tokens that asks for two
\* continuations, of 2 tokens each
C33_Witness ==
    /\ IsGenerateCall
    /\ OriginalBudget = 5
    /\ Len(llmCall.requests) = 3
    /\ llmCall.requests[2].num_predict = 2
    /\ llmCall.requests[3].num_predict = 2

----------------------------------------------------------------------------
(* Claims about the second continuation *)

\* the first continuation of the returned call was appended to the answer
FirstContinuationAccepted ==
    /\ IsGenerateCall
    /\ Len(llmCall.trail) >= 2
    /\ llmCall.trail[2] =
          llmCall.trail[1] \o <<Newline, Newline>>
             \o _clean_answer(ContinuationText(2))

\* C40: incompleteness is judged again on the whole accumulated answer against
\* the budget of the first request, so after an accepted first continuation the
\* length test stays true: a second continuation is requested if and only if
\* the accumulated answer (first answer, blank line, first continuation) does
\* not end in a terminal marker.
C40_SecondContinuationIff ==
    FirstContinuationAccepted =>
        /\ Len(llmCall.trail[2]) > Len(llmCall.trail[1])
        /\ Len(llmCall.requests) = 3 <=> ~EndsWithMarker(llmCall.trail[2])
        /\ Len(llmCall.requests) = 3 =>
              llmCall.requests[3].text = llmCall.trail[2]

\* C40 witness: the first continuation is accepted and ends in a full stop, and
\* no second one is asked for although the answer is far over the length
C40_Witness ==
    /\ FirstContinuationAccepted
    /\ EndsWithMarker(llmCall.trail[2])
    /\ ~EndsWithMarker(llmCall.trail[1])
    /\ Len(llmCall.trail[2]) * 10 > 3 * CharsPerTokenTenths * OriginalBudget
    /\ Len(llmCall.requests) = 2
    /\ llmCall.ret = llmCall.trail[2]

----------------------------------------------------------------------------
(* Claims about the documents of the collection *)

\* the inputs of the returned call whose trimmed text has more than 10 characters
Surviving == {i \in 1..Len(dbCall.documents) : Len(Strip(dbCall.documents[i].text)) > 10}

\* the documents the returned call put in the collection
Inserted == {d \in Range(store) : d.id \notin StoreIds(dbCall.before)}

\* C34: every document of the collection has a trimmed text of more than 10
\* characters, a source tag and a timestamp, under an id of its own; a
\* successful add_documents adds as many documents as inputs survive, each
\* under a fresh id and with the source given to the call, and leaves the
\* documents that were there as they were.
C34_StoredDocuments ==
    /\ \A i \in 1..Len(store) :
          /\ Len(store[i].document) > 10
          /\ Strip(store[i].document) = store[i].document
          /\ store[i].source \in Sources
          /\ store[i].timestamp # <<>>
          /\ \A j \in 1..Len(store) : store[j].id = store[i].id => j = i
    /\ (IsAddCall /\ dbCall.ret = TRUE) =>
          /\ Len(store) = Len(dbCall.before) + Cardinality(Surviving)
          /\ Cardinality(Surviving) > 0
          /\ Cardinality(Inserted) = Cardinality(Surviving)
          /\ \A d \in Inserted : d.source = dbCall.source
          /\ \A d \in Range(dbCall.before) : d \in Range(store)

\* C34 witness: a successful call with a discarded input and a surviving one,
\* on a collection that holds the same text under another source
C34_Witness ==
    /\ IsAddCall
    /\ dbCall.ret = TRUE
    /\ Len(dbCall.documents) = 2
    /\ Cardinality(Surviving) = 1
    /\ Len(dbCall.before) = 1
    /\ Len(store) = 2
    /\ store[2].document = store[1].document
    /\ store[2].source # store[1].source
    /\ store[2].id # store[1].id

----------------------------------------------------------------------------
(* Claims about the release of the write lock *)

\* the task is inside the async with block
InBlock(t) == task[t].pc \in {"embed", "insert", "get", "delete", "release"}

\* C36: the write lock is released on every way out of add_documents and
\* delete_old_documents (success, early return, exception): the lock is held
\* exactly while a writer is inside its async with block, so it is free when
\* no write is in progress, and every writer that waits for the lock
\* eventually gets it.
C36_LockReleased ==
    /\ [](\A t \in Tasks : lock = t <=> InBlock(t))
    /\ []((\A t \in Tasks : ~InBlock(t)) => lock = 0)
    /\ \A t \in Tasks : (task[t].pc = "acquire") ~> (lock = t)

\* C36 witness: collection.delete has raised in a writer that found old
\* documents (they are still there), the writer is about to leave the block,
\* and another writer waits for the lock
C36_Witness ==
    \E t, u \in Tasks :
        /\ t # u
        /\ lock = t
        /\ task[t].op = "delete_old_documents"
        /\ task[t].pc = "release"
        /\ task[t].ids # <<>>
        /\ Range(task[t].ids) \subseteq StoreIds(store)
        /\ task[u].pc = "acquire"

----------------------------------------------------------------------------
(* Claims about failures inside process, its modes and its writes *)

\* the request has gone as far as the generator and has returned
Responded == ragPc = "returned" /\ CallsTo("llm.generate") # {}

\* the generator was given exactly this context
GeneratedFrom(context) ==
    \E i \in CallsTo("llm.generate") : ragCall.calls[i].context = context

\* C35: a failing retrieval or persistence step does not end the request.  When
\* the store search raises, the store context is empty and the web is searched;
\* when the web search raises and the store gave a context, the generator is
\* asked with that context; when saving the web results fails (add_documents
\* answers False or raises), the generator is asked with the gathered context.
C35_StepFailureIsolated ==
    (ragPc # "idle" /\ ~Blank(ragCall.query)) =>
        /\ ragCall.db_raised =>
              /\ ragCall.db_results = <<>>
              /\ CallsTo("web.search") # {}
        /\ (ragPc = "returned" /\ ragCall.web_raised /\ ragCall.db_results # <<>>) =>
              /\ GeneratedFrom(ragCall.db_results)
              /\ ragCall.ret # NoInfoMessage
        /\ (ragPc = "returned" /\ ragCall.stored \in {"False", "raise"}) =>
              GeneratedFrom(StoreThenWeb)
        /\ ragPc = "returned" => ragCall.ret # None

\* C35 witness: the store search raised, the web gave results, saving them
\* raised, and the generator answered from the web results
C35_Witness ==
    /\ Responded
    /\ ragCall.db_raised
    /\ ragCall.web_results # <<>>
    /\ ragCall.stored = "raise"
    /\ GeneratedFrom(ragCall.web_results)
    /\ ragCall.ret = <<111, 107, 46>>

\* the mode whose settings an unknown mode falls back to
SettingsMode ==
    IF ragCall.mode \in {"short", "default", "detailed"} THEN ragCall.mode ELSE "default"

\* the template an unknown mode falls back to
TemplateMode ==
    IF ragCall.mode \in {"short", "default", "detailed"} THEN ragCall.mode ELSE "detailed"

\* the first request LLMService.generate sends for a call of process to it
FirstRequestOf(call) ==
    generate(modeCfg, call.prompt, call.mode,
             Rep(Says(<<111, 107, 46>>), MaxCalls + 1)).requests[1]

\* C38: for a mode other than short, default and detailed, process takes the
\* number of web results from the default settings and the generator its
\* parameters from the default settings, while the prompt is the detailed
\* template; for each of the three modes, the template, the number of web
\* results and the parameters of the generator are those of the mode.
C38_ModeConsistency ==
    ragPc # "idle" =>
        /\ \A j \in CallsTo("web.search") :
              ragCall.calls[j].num_results = modeCfg[SettingsMode].web_search_results
        /\ \A i \in CallsTo("llm.generate") :
              /\ ragCall.calls[i].prompt.template = TemplateMode
              /\ FirstRequestOf(ragCall.calls[i]).temperature
                    = modeCfg[SettingsMode].temperature
              /\ FirstRequestOf(ragCall.calls[i]).top_k = modeCfg[SettingsMode].top_k
              /\ FirstRequestOf(ragCall.calls[i]).num_predict
                    = IF SettingsMode = "short"
                      THEN Min(modeCfg["short"].num_predict, 120)
                      ELSE modeCfg[SettingsMode].num_predict

\* C38 witness: a request in the mode "bogus" that searched the web and asked
\* the generator: detailed template, default settings, which differ from the
\* detailed ones
C38_Witness ==
    /\ Responded
    /\ ragCall.user_mode = "bogus"
    /\ CallsTo("web.search") # {}
    /\ \A i \in CallsTo("llm.generate") :
          /\ ragCall.calls[i].prompt.template = "detailed"
          /\ FirstRequestOf(ragCall.calls[i]).num_predict = modeCfg["default"].num_predict
          /\ FirstRequestOf(ragCall.calls[i]).num_predict # modeCfg["detailed"].num_predict
    /\ modeCfg["default"].web_search_results # modeCfg["detailed"].web_search_results

\* the web search of the request gave no context, or was not made
NoWebContext == ragCall.web_results = None \/ ragCall.web_results = <<>>

\* C39: process writes to the store only by saving web results that are not
\* empty.  A request that is refused as blank, answered from the store alone
\* (store context longer than 1200 characters) or whose web search gave
\* nothing calls no writing method of the store: of the collaborators' methods
\* it calls only db.search, web.search and llm.generate; and where it calls
\* add_documents, the documents are parts of the web context, under web_auto.
C39_WritesOnlyWebResults ==
    ragPc # "idle" =>
        /\ \A i \in 1..Len(ragCall.calls) :
              ragCall.calls[i].to
                 \in {"db.search", "web.search", "db.add_documents", "llm.generate"}
        /\ (\/ Blank(ragCall.query)
            \/ (ragCall.db_results # None /\ Len(ragCall.db_results) > 1200)
            \/ NoWebContext) => CallsTo("db.add_documents") = {}
        /\ \A i \in CallsTo("db.add_documents") :
              /\ ragCall.calls[i].source = WebAuto
              /\ ragCall.calls[i].documents # <<>>
              /\ \A k \in 1..Len(ragCall.calls[i].documents) :
                    /\ ragCall.calls[i].documents[k].text # <<>>
                    /\ IsSubstring(ragCall.calls[i].documents[k].text, ragCall.web_results)

\* C39 witness: a request answered from a store context of 1201 characters: the
\* store was searched, the generator asked, and nothing else called
C39_Witness ==
    /\ Responded
    /\ Len(ragCall.db_results) = 1201
    /\ Len(ragCall.calls) = 2
    /\ ragCall.calls[1].to = "db.search"
    /\ ragCall.calls[2].to = "llm.generate"
    /\ ragCall.ret = <<111, 107, 46>>

====
